---- MODULE Spec2Model ----
(***************************************************************************)
(* A model of the viv_script compiler: tokenizer (parsing/tokens.rs),      *)
(* parser (parsing/parser.rs), type analyzer (type_analyzer.rs) and the    *)
(* integer/print part of the code generator (code_gen.rs), driven in the   *)
(* order of build (lib.rs).                                                *)
(*                                                                         *)
(* Source text is a sequence of one-character strings.  A token is         *)
(* <<type, line, char>> and a token type is a tagged tuple, <<"Print">> or *)
(* <<"Integer", 5>>.  AST and IR nodes are tagged tuples as well.          *)
(***************************************************************************)
EXTENDS Integers, Sequences, FiniteSets, TLC

VARIABLES
    pc,                 \* position in build: tokenize, parse, resolve, ...
    source,             \* the text handed to Tokenizer::new
    code,               \* Tokenizer.code, the characters not yet consumed
    line,               \* Tokenizer.line
    char,               \* Tokenizer.char
    tokens,             \* the Vec<Token> built by tokenize
    ast,                \* the ast::Module returned by Parser::module, <<>> before
    scopes,             \* Analyzer.scopes
    function_metadata,  \* Analyzer.function_metadata
    current_identifier, \* Analyzer.current_identifier
    function_index,     \* resolve_module: the top-level statement it is at
    statement_index,    \* resolve_top_level_statement: the statement it is at, 0 outside
    body,               \* resolve_top_level_statement: its ir_statements
    ir,                 \* resolve_module: its ir_statements, the functions resolved
    module,             \* CodeGen.module: [declared, functions, globals]
    local_vars,         \* CodeGen.local_vars
    frame,              \* the running program: [function, block, ip, regs, memory]
    output,             \* what the running program has printed
    err                 \* the error build returns, <<"none">> while there is none

tokenizer_vars == <<code, line, char, tokens>>

analyzer_vars == <<scopes, function_metadata, current_identifier,
                   function_index, statement_index, body, ir>>

codegen_vars == <<module, local_vars>>

program_vars == <<frame, output>>

vars == <<pc, source, tokenizer_vars, ast, analyzer_vars, codegen_vars,
          program_vars, err>>

(***************************************************************************)
(* Bounds of the model.                                                    *)
(***************************************************************************)
MaxChunks == 3

MaxOperands == 3

MaxFunctions == 2

MaxStatements == 3

(***************************************************************************)
(* Characters.                                                             *)
(***************************************************************************)
Digits == {"0", "1", "2", "3", "4", "5", "6", "7", "8", "9"}

Lower == {"a", "b", "c", "d", "e", "f", "g", "h", "i", "j", "k", "l", "m",
          "n", "o", "p", "q", "r", "s", "t", "u", "v", "w", "x", "y", "z"}

Upper == {"A", "B", "C", "D", "E", "F", "G", "H", "I", "J", "K", "L", "M",
          "N", "O", "P", "Q", "R", "S", "T", "U", "V", "W", "X", "Y", "Z"}

is_ascii_digit(c) == c \in Digits

is_ascii_alphabetic(c) == c \in Lower \cup Upper

is_ascii_alphanumeric(c) == is_ascii_alphabetic(c) \/ is_ascii_digit(c)

is_ascii_whitespace(c) == c \in {" ", "\t", "\n", "\f", "\r"}

DigitValue(c) ==
    CASE c = "0" -> 0 [] c = "1" -> 1 [] c = "2" -> 2 [] c = "3" -> 3
      [] c = "4" -> 4 [] c = "5" -> 5 [] c = "6" -> 6 [] c = "7" -> 7
      [] c = "8" -> 8 [] c = "9" -> 9

\* IntType = i32: the largest value an Integer token can carry.
IntMax == 2147483647

\* str::parse::<i32> of a run of decimal digits: checked multiply and add,
\* an Err (ok = FALSE) as soon as the value leaves the i32 range.
RECURSIVE parse_digits(_, _)
parse_digits(digits, acc) ==
    IF digits = <<>> THEN [ok |-> TRUE, val |-> acc]
    ELSE LET d == DigitValue(Head(digits)) IN
         IF acc > (IntMax - d) \div 10
         THEN [ok |-> FALSE, val |-> 0]
         ELSE parse_digits(Tail(digits), acc * 10 + d)

parse_i32(digits) == parse_digits(digits, 0)

\* A String built from characters.
RECURSIVE Str(_)
Str(chars) == IF chars = <<>> THEN "" ELSE Head(chars) \o Str(Tail(chars))

(***************************************************************************)
(* Tokenizer (parsing/tokens.rs).  t is the tokenizer: [code, line, char]. *)
(***************************************************************************)
Tokenizer_new(text) == [code |-> text, line |-> 1, char |-> 1]

Tokenizer_error(t, msg) == <<"TokenizerError", t.line, t.char, msg>>

Tokenizer_token(t, type) == <<type, t.line, t.char>>

\* An advance that counts every character, a newline too, as a column.
advance_in_line(t) ==
    IF t.code = <<>> THEN t
    ELSE [code |-> Tail(t.code), line |-> t.line, char |-> t.char + 1]

Tokenizer_advance(t) ==
    IF t.code = <<>> THEN t
    ELSE IF Head(t.code) = "\n"
         THEN [code |-> Tail(t.code), line |-> t.line + 1, char |-> 1]
         ELSE [code |-> Tail(t.code), line |-> t.line, char |-> t.char + 1]

Tokenizer_void(t) == Tokenizer_advance(t)

\* The loops of consume_number and consume_identifier: the characters taken
\* and the tokenizer after them.
RECURSIVE consume_digits(_, _)
consume_digits(t, number) ==
    IF t.code # <<>> /\ is_ascii_digit(Head(t.code))
    THEN consume_digits(Tokenizer_void(t), Append(number, Head(t.code)))
    ELSE [t |-> t, text |-> number]

RECURSIVE consume_alphanumeric(_, _)
consume_alphanumeric(t, identifier) ==
    IF t.code # <<>> /\ is_ascii_alphanumeric(Head(t.code))
    THEN consume_alphanumeric(Tokenizer_void(t), Append(identifier, Head(t.code)))
    ELSE [t |-> t, text |-> identifier]

\* number.parse().unwrap(): a panic when the digits do not fit IntType.
consume_number(t) ==
    LET r == consume_digits(t, <<>>)
        n == parse_i32(r.text)
    IN  IF n.ok
        THEN [panic |-> FALSE, t |-> r.t,
              token |-> Tokenizer_token(r.t, <<"Integer", n.val>>)]
        ELSE [panic |-> TRUE, t |-> r.t, token |-> <<>>]

Keyword(identifier) ==
    CASE identifier = "print" -> <<"Print">>
      [] identifier = "true" -> <<"True">>
      [] identifier = "false" -> <<"False">>
      [] identifier = "assert" -> <<"Assert">>
      [] OTHER -> <<"Identifier", identifier>>

consume_identifier(t) ==
    LET r == consume_alphanumeric(t, <<>>)
    IN  [t |-> r.t, token |-> Tokenizer_token(r.t, Keyword(Str(r.text)))]

RECURSIVE consume_whitespace(_)
consume_whitespace(t) ==
    IF t.code # <<>> /\ is_ascii_whitespace(Head(t.code))
    THEN consume_whitespace(Tokenizer_void(t))
    ELSE t

\* consume_comment that drops the `#` alone and leaves the rest of the line.
comment_marker_only(t) == Tokenizer_void(t)

RECURSIVE consume_comment(_)
consume_comment(t) ==
    IF t.code = <<>> THEN t
    ELSE IF Head(t.code) = "\n" THEN Tokenizer_void(t)
         ELSE consume_comment(Tokenizer_void(t))

RECURSIVE consume_string_loop(_, _)
consume_string_loop(t, string) ==
    IF t.code = <<>>
    THEN [ok |-> FALSE, t |-> t, token |-> <<>>,
          err |-> Tokenizer_error(t, "Unexpected end of file")]
    ELSE IF Head(t.code) = "\""
    THEN LET t2 == Tokenizer_void(t)
         IN  [ok |-> TRUE, t |-> t2, err |-> <<"none">>,
              token |-> Tokenizer_token(t2, <<"String", Str(string)>>)]
    ELSE IF Head(t.code) = "\n"
    THEN [ok |-> FALSE, t |-> t, token |-> <<>>,
          err |-> Tokenizer_error(t, "Unexpected newline in string")]
    ELSE consume_string_loop(Tokenizer_void(t), Append(string, Head(t.code)))

consume_string(t) == consume_string_loop(Tokenizer_void(t), <<>>)

\* consume_double_symbol without its lookahead: the first character alone.
consume_first_symbol(t, next_char, single_token, double_token) ==
    [t |-> Tokenizer_void(t),
     token |-> Tokenizer_token(Tokenizer_void(t), single_token)]

consume_double_symbol(t, next_char, single_token, double_token) ==
    LET t1 == Tokenizer_void(t)
    IN  IF t1.code # <<>> /\ Head(t1.code) = next_char
        THEN LET t2 == Tokenizer_void(t1)
             IN  [t |-> t2, token |-> Tokenizer_token(t2, double_token)]
        ELSE [t |-> t1, token |-> Tokenizer_token(t1, single_token)]

\* The first characters of the two-character operators, with the arguments
\* tokenize passes to consume_double_symbol for each.
DoubleFirst == {"=", "!", "<", ">", "&", "|"}

DoubleNext(c) == IF c = "&" THEN "&" ELSE IF c = "|" THEN "|" ELSE "="

DoubleSingle(c) ==
    CASE c = "=" -> <<"Eq">>  [] c = "!" -> <<"Bang">> [] c = "<" -> <<"Lt">>
      [] c = ">" -> <<"Gt">>  [] c = "&" -> <<"And">>  [] c = "|" -> <<"Or">>

DoubleDouble(c) ==
    CASE c = "=" -> <<"EqEq">> [] c = "!" -> <<"BangEq">> [] c = "<" -> <<"LtEq">>
      [] c = ">" -> <<"GtEq">> [] c = "&" -> <<"AndAnd">> [] c = "|" -> <<"OrOr">>

\* The single-character punctuation of the last arm of tokenize.
SingleChars == {";", "$", ",", "{", "}", "(", ")", "-", "+", "*", "/"}

SingleToken(c) ==
    CASE c = ";" -> <<"SemiColon">>  [] c = "$" -> <<"Dollar">>
      [] c = "," -> <<"Comma">>      [] c = "{" -> <<"CurlyOpen">>
      [] c = "}" -> <<"CurlyClose">> [] c = "(" -> <<"ParenOpen">>
      [] c = ")" -> <<"ParenClose">> [] c = "-" -> <<"Minus">>
      [] c = "+" -> <<"Plus">>       [] c = "*" -> <<"Star">>
      [] c = "/" -> <<"Slash">>

(***************************************************************************)
(* StreamConsumer<Token> and Parser (parsing/mod.rs, parsing/parser.rs).   *)
(* s is the token stream.  Every parsing function returns                  *)
(* [ok, val, s, err]: the value and the stream left, or the error.         *)
(***************************************************************************)
Ok(val, s) == [ok |-> TRUE, val |-> val, s |-> s, err |-> <<"none">>]

Fail(e) == [ok |-> FALSE, val |-> <<>>, s |-> <<>>, err |-> e]

\* anyhow's context "Unexpected End of Tokens" around a StreamerError.
EndOfTokens == <<"UnexpectedEndOfTokens">>

error(got, expected) == <<"ParsingError", got[2], got[3], got[1], expected>>

StreamConsumer_void(s) == IF s = <<>> THEN s ELSE Tail(s)

Parser_peek(s) == IF s = <<>> THEN Fail(EndOfTokens) ELSE Ok(Head(s)[1], s)

Parser_advance(s) == IF s = <<>> THEN Fail(EndOfTokens) ELSE Ok(Head(s), Tail(s))

expect(s, expected_token) ==
    LET check(a) == IF ~a.ok THEN a
                    ELSE IF a.val[1] = expected_token THEN Ok(a.val[1], a.s)
                    ELSE Fail(error(a.val, expected_token[1]))
    IN  check(Parser_advance(s))

\* The levels of OPERATORS in the opposite order.
OPERATORS_reversed == <<
    <<"Prefix", <<"Minus">>, "Negate">>,
    <<"Binary", << <<<<"Star">>, "Multiply">>, <<<<"Slash">>, "Divide">> >> >>,
    <<"Binary", << <<<<"Plus">>, "Plus">>, <<<<"Minus">>, "Minus">> >> >>,
    <<"Comparison", << <<<<"EqEq">>, "Equals">>, <<<<"BangEq">>, "NotEquals">>,
                       <<<<"Lt">>, "LessThan">>, <<<<"LtEq">>, "LessThanEquals">>,
                       <<<<"Gt">>, "GreaterThan">>,
                       <<<<"GtEq">>, "GreaterThanEquals">> >> >>,
    <<"Binary", << <<<<"AndAnd">>, "And">>, <<<<"OrOr">>, "Or">> >> >>,
    <<"Prefix", <<"Bang">>, "Not">>
>>

\* OPERATORS, indexed from 1 here and from 0 in the source.
OPERATORS == <<
    <<"Prefix", <<"Bang">>, "Not">>,
    <<"Binary", << <<<<"AndAnd">>, "And">>, <<<<"OrOr">>, "Or">> >> >>,
    <<"Comparison", << <<<<"EqEq">>, "Equals">>, <<<<"BangEq">>, "NotEquals">>,
                       <<<<"Lt">>, "LessThan">>, <<<<"LtEq">>, "LessThanEquals">>,
                       <<<<"Gt">>, "GreaterThan">>,
                       <<<<"GtEq">>, "GreaterThanEquals">> >> >>,
    <<"Binary", << <<<<"Plus">>, "Plus">>, <<<<"Minus">>, "Minus">> >> >>,
    <<"Binary", << <<<<"Star">>, "Multiply">>, <<<<"Slash">>, "Divide">> >> >>,
    <<"Prefix", <<"Minus">>, "Negate">>
>>

\* mappings.iter().find(|(t, _)| t == token): the indices of the entries for token.
Find(mappings, token) == {i \in 1..Len(mappings) : mappings[i][1] = token}

FoundOp(mappings, token) ==
    mappings[CHOOSE i \in Find(mappings, token) :
                 \A j \in Find(mappings, token) : i <= j][2]

literal(s) ==
    LET match(a) ==
            IF ~a.ok THEN a
            ELSE CASE a.val[1][1] = "Integer" -> Ok(<<"Integer", a.val[1][2]>>, a.s)
                   [] a.val[1][1] = "True" -> Ok(<<"Boolean", TRUE>>, a.s)
                   [] a.val[1][1] = "False" -> Ok(<<"Boolean", FALSE>>, a.s)
                   [] a.val[1][1] = "Identifier" ->
                          Ok(<<"Variable", a.val[1][2]>>, a.s)
                   [] OTHER -> Fail(error(a.val, "Literal"))
    IN  match(Parser_advance(s))

RECURSIVE group(_)
RECURSIVE expression_precedence(_, _)
RECURSIVE comparison_loop(_, _, _, _)
RECURSIVE binary_loop(_, _, _)

expression(s) == expression_precedence(s, 0)

\* Each step of a parsing function is a local operator applied to the
\* result of the step before it: the `?` of the source is its first line.
group(s) ==
    LET closed(e, c) == IF ~c.ok THEN c ELSE Ok(e.val, c.s)
        inner(e) == IF ~e.ok THEN e
                    ELSE closed(e, expect(e.s, <<"ParenClose">>))
        wrapped(l) == IF ~l.ok THEN l ELSE Ok(<<"Literal", l.val>>, l.s)
        peeked(p) == IF ~p.ok THEN p
                     ELSE IF p.val = <<"ParenOpen">>
                     THEN inner(expression(StreamConsumer_void(s)))
                     ELSE wrapped(literal(s))
    IN  peeked(Parser_peek(s))

\* A Comparison arm that folds each operator as the Binary arm does: a
\* Comparison node of one link around the comparison before it.
nested_comparison_loop(s, precedence, left_side, chains) ==
    LET comparisons == OPERATORS[precedence + 1][2]
        folded(p, e) ==
            IF ~e.ok THEN e
            ELSE comparison_loop(e.s, precedence,
                     <<"Comparison", left_side,
                       << <<FoundOp(comparisons, p.val), e.val>> >> >>,
                     chains)
        peeked(p) ==
            IF ~p.ok THEN p
            ELSE IF Find(comparisons, p.val) # {}
            THEN folded(p, expression_precedence(StreamConsumer_void(s),
                                                 precedence + 1))
            ELSE Ok(left_side, s)
    IN  peeked(Parser_peek(s))

\* The loop of the Comparison arm: chains so far, then the rest.
comparison_loop(s, precedence, left_side, chains) ==
    LET comparisons == OPERATORS[precedence + 1][2]
        pushed(p, e) ==
            IF ~e.ok THEN e
            ELSE comparison_loop(e.s, precedence, left_side,
                     Append(chains, <<FoundOp(comparisons, p.val), e.val>>))
        peeked(p) ==
            IF ~p.ok THEN p
            ELSE IF Find(comparisons, p.val) # {}
            THEN pushed(p, expression_precedence(StreamConsumer_void(s),
                                                 precedence + 1))
            ELSE IF chains = <<>> THEN Ok(left_side, s)
            ELSE Ok(<<"Comparison", left_side, chains>>, s)
    IN  peeked(Parser_peek(s))

\* A Binary arm that takes everything after the operator as its right
\* side: the operators of one level group to the right.
right_binary_loop(s, precedence, left_side) ==
    LET mappings == OPERATORS[precedence + 1][2]
        folded(p, e) ==
            IF ~e.ok THEN e
            ELSE Ok(<<"BinaryOp", left_side, FoundOp(mappings, p.val), e.val>>, e.s)
        peeked(p) ==
            IF ~p.ok THEN p
            ELSE IF Find(mappings, p.val) # {}
            THEN folded(p, expression_precedence(StreamConsumer_void(s), precedence))
            ELSE Ok(left_side, s)
    IN  peeked(Parser_peek(s))

\* The loop of the Binary arm.
binary_loop(s, precedence, left_side) ==
    LET mappings == OPERATORS[precedence + 1][2]
        folded(p, e) ==
            IF ~e.ok THEN e
            ELSE binary_loop(e.s, precedence,
                     <<"BinaryOp", left_side, FoundOp(mappings, p.val), e.val>>)
        peeked(p) ==
            IF ~p.ok THEN p
            ELSE IF Find(mappings, p.val) # {}
            THEN folded(p, expression_precedence(StreamConsumer_void(s),
                                                 precedence + 1))
            ELSE Ok(left_side, s)
    IN  peeked(Parser_peek(s))

expression_precedence(s, precedence) ==
    LET level == OPERATORS[precedence + 1]
        prefixed(e) == IF ~e.ok THEN e ELSE Ok(<<"Prefix", level[3], e.val>>, e.s)
        prefix(p) ==
            IF ~p.ok THEN p
            ELSE IF p.val = level[2]
            THEN prefixed(expression_precedence(StreamConsumer_void(s), precedence))
            ELSE expression_precedence(s, precedence + 1)
        compared(l) == IF ~l.ok THEN l
                       ELSE comparison_loop(l.s, precedence, l.val, <<>>)
        combined(l) == IF ~l.ok THEN l ELSE binary_loop(l.s, precedence, l.val)
    IN  IF precedence >= Len(OPERATORS) THEN group(s)
        ELSE CASE level[1] = "Prefix" -> prefix(Parser_peek(s))
               [] level[1] = "Comparison" ->
                      compared(expression_precedence(s, precedence + 1))
               [] level[1] = "Binary" ->
                      combined(expression_precedence(s, precedence + 1))

\* The Assert arm of statement, after the expression.
assert_message(s) ==
    LET string(a) ==
            IF ~a.ok THEN a
            ELSE IF a.val[1][1] = "String" THEN Ok(<<"Some", a.val[1][2]>>, a.s)
            ELSE Fail(error(a.val, "String"))
        peeked(p) == IF ~p.ok THEN p
                     ELSE IF p.val = <<"Comma">>
                     THEN string(Parser_advance(StreamConsumer_void(s)))
                     ELSE Ok(<<"None">>, s)
    IN  peeked(Parser_peek(s))

statement(s) ==
    LET printed(e, c) == IF ~c.ok THEN c ELSE Ok(<<"Print", e.val>>, c.s)
        print_value(e) == IF ~e.ok THEN e
                    ELSE printed(e, expect(e.s, <<"SemiColon">>))
        asserted(e, m, c) ==
            IF ~c.ok THEN c ELSE Ok(<<"Assert", e.val, m.val>>, c.s)
        assert_rest(e, m) == IF ~m.ok THEN m
                             ELSE asserted(e, m, expect(m.s, <<"SemiColon">>))
        assert_value(e) == IF ~e.ok THEN e ELSE assert_rest(e, assert_message(e.s))
        set_end(token, name, e, c) ==
            IF ~c.ok THEN c
            ELSE IF token[1] = <<"Let">>
            THEN Ok(<<"Declaration", name, e.val>>, c.s)
            ELSE Ok(<<"Assignment", name, e.val>>, c.s)
        set_value(token, name, e) ==
            IF ~e.ok THEN e
            ELSE set_end(token, name, e, expect(e.s, <<"SemiColon">>))
        set_eq(token, name, q) ==
            IF ~q.ok THEN q ELSE set_value(token, name, expression(q.s))
        set_name(token, i) ==
            IF ~i.ok THEN i
            ELSE IF i.val[1][1] # "Identifier" THEN Fail(error(i.val, "Identifier"))
            ELSE set_eq(token, i.val[1][2], expect(i.s, <<"Eq">>))
        match(a) ==
            IF ~a.ok THEN a
            ELSE CASE a.val[1] = <<"Print">> -> print_value(expression(a.s))
                   [] a.val[1] = <<"Assert">> -> assert_value(expression(a.s))
                   [] a.val[1] \in {<<"Let">>, <<"Set">>} ->
                          set_name(a.val, Parser_advance(a.s))
                   [] OTHER -> Fail(error(a.val, "Statement"))
    IN  match(Parser_advance(s))

RECURSIVE main_function_loop(_, _)
main_function_loop(s, statements) ==
    LET pushed(st) == IF ~st.ok THEN st
                      ELSE main_function_loop(st.s, Append(statements, st.val))
        closed(c) == IF ~c.ok THEN c ELSE Ok(<<"MainFunction", statements>>, c.s)
        peeked(p) == IF ~p.ok THEN p
                     ELSE IF p.val # <<"CurlyClose">> THEN pushed(statement(s))
                     ELSE closed(expect(s, <<"CurlyClose">>))
    IN  peeked(Parser_peek(s))

main_function(s) ==
    LET opened(o) == IF ~o.ok THEN o ELSE main_function_loop(o.s, <<>>)
    IN  opened(expect(s, <<"CurlyOpen">>))

top_level_statement(s) ==
    LET other(b) == IF ~b.ok THEN b ELSE Fail(error(b.val, "Top Level Statement"))
        match(a) == IF ~a.ok THEN a
                    ELSE IF a.val[1] = <<"Dollar">> THEN main_function(a.s)
                    ELSE other(Parser_advance(a.s))
    IN  match(Parser_advance(s))

\* A module loop that does not stop at Eof.
module_never_ends(type) == TRUE

\* while self.peek()? != &TokenType::Eof
module_continues(type) == type # <<"Eof">>

RECURSIVE module_loop(_, _)
module_loop(s, statements) ==
    LET pushed(st) == IF ~st.ok THEN st
                      ELSE module_loop(st.s, Append(statements, st.val))
        peeked(p) == IF ~p.ok THEN p
                     ELSE IF module_continues(p.val)
                     THEN pushed(top_level_statement(s))
                     ELSE Ok(<<"Module", statements>>, s)
    IN  peeked(Parser_peek(s))

Parser_module(toks) == module_loop(toks, <<>>)

(***************************************************************************)
(* Analyzer (type_analyzer.rs).  a is the analyzer:                        *)
(* [scopes, function_metadata, current_identifier].  A VarScope is         *)
(* [parent, variables], variables a function from names to VarInfo; the    *)
(* function metadata is <<"None">> or <<"Some", locals>>.  Every resolve   *)
(* function returns [ok, a, val, err]: val is the typed expression         *)
(* <<"Int", e>> or <<"Boolean", e>>, or the IR statement.                  *)
(***************************************************************************)
Analyzer_new == [scopes |-> <<>>, function_metadata |-> <<"None">>,
                 current_identifier |-> 0]

ROk(a, val) == [ok |-> TRUE, a |-> a, val |-> val, err |-> <<"none">>]

RFail(a, msg) == [ok |-> FALSE, a |-> a, val |-> <<>>, err |-> <<"TypeError", msg>>]

\* A type test that every typed expression passes.
any_type(typed) == TRUE

\* TypedExpression::is_int and is_boolean, as the test and the message.
is_int(typed) == typed[1] = "Int"

is_boolean(typed) == typed[1] = "Boolean"

to_var_type(typed) == typed[1]

\* An identifier source that hands out the current identifier again.
same_identifier(a) == a

\* An identifier source that reuses one identifier for every variable.
reused_identifier(a) == [a EXCEPT !.current_identifier = 1]

\* self.current_identifier += 1
get_free_identifier(a) == [a EXCEPT !.current_identifier = @ + 1]

\* self.function_metadata.as_mut().unwrap().locals.push(entry)
push_local(a, entry) ==
    [a EXCEPT !.function_metadata = <<"Some", Append(@[2], entry)>>]

\* A scope that drops the binding it is handed.
keep_variables(a, name, info) == a

\* HashMap::insert on the variables of the last scope.
insert_variable(a, name, info) ==
    LET n == Len(a.scopes)
        variables == a.scopes[n].variables
    IN  [a EXCEPT !.scopes[n].variables =
            [v \in DOMAIN variables \cup {name} |->
                IF v = name THEN info ELSE variables[v]]]

\* self.scopes.last().unwrap().variables
last_variables(a) == a.scopes[Len(a.scopes)].variables

\* HashMap::new()
HashMap_new == [v \in {} |-> <<>>]

resolve_literal(a, lit) ==
    CASE lit[1] = "Integer" -> ROk(a, <<"Int", <<"Literal", lit[2]>> >>)
      [] lit[1] = "Boolean" -> ROk(a, <<"Boolean", <<"Literal", lit[2]>> >>)
      [] lit[1] = "Variable" ->
            IF lit[2] \notin DOMAIN last_variables(a)
            THEN RFail(a, "variable " \o lit[2] \o " not found")
            ELSE LET var_info == last_variables(a)[lit[2]]
                 IN  ROk(a, <<var_info.var_type, <<"Var", var_info.identifier>> >>)

IntBinaryOps == {"Plus", "Minus", "Multiply", "Divide"}

BooleanOperators == {"And", "Or"}

IntComparisonOp(op) == IF op = "Equals" THEN "Equal" ELSE op

RECURSIVE resolve_expression(_, _)
RECURSIVE resolve_chains(_, _, _)

resolve_prefix(a, expr, op) ==
    LET r == resolve_expression(a, expr)
    IN  IF ~r.ok THEN r
        ELSE IF op = "Negate"
        THEN IF is_int(r.val) THEN ROk(r.a, <<"Int", <<"Negate", r.val[2]>> >>)
             ELSE RFail(r.a, "Expected int")
        ELSE IF is_boolean(r.val) THEN ROk(r.a, <<"Boolean", <<"Not", r.val[2]>> >>)
             ELSE RFail(r.a, "Expected bool")

\* The Boolean arm of resolve_binary once both sides and the operator are fine.
resolve_boolean_operator(a, left, op, right) ==
    LET a1 == get_free_identifier(a)
        result_identifier == a1.current_identifier
        a2 == push_local(a1, <<result_identifier, "Boolean">>)
    IN  ROk(a2, <<"Boolean", <<"Operator", result_identifier, left, op, right>> >>)

resolve_binary(a, left, op, right) ==
    LET l == resolve_expression(a, left)
        r == resolve_expression(l.a, right)
    IN  IF ~l.ok THEN l
        ELSE IF ~r.ok THEN r
        ELSE IF is_int(l.val)
        THEN IF ~is_int(r.val) THEN RFail(r.a, "Expected int")
             ELSE IF op \notin IntBinaryOps
             THEN RFail(r.a, "Operator not supported for int")
             ELSE ROk(r.a, <<"Int", <<"BinaryOperation", l.val[2], op, r.val[2]>> >>)
        ELSE IF ~is_boolean(r.val) THEN RFail(r.a, "Expected bool")
             ELSE IF op \notin BooleanOperators
             THEN RFail(r.a, "Operator not supported for boolean")
             ELSE resolve_boolean_operator(r.a, l.val[2], op, r.val[2])

\* chains.iter().map(..).collect::<Result<Vec<_>>>(): the links in order, up
\* to the first that fails.
resolve_chains(a, chains, done) ==
    IF chains = <<>> THEN ROk(a, done)
    ELSE LET r == resolve_expression(a, Head(chains)[2])
         IN  IF ~r.ok THEN r
             ELSE IF ~is_int(r.val) THEN RFail(r.a, "Expected int")
             ELSE resolve_chains(r.a, Tail(chains),
                      Append(done, <<IntComparisonOp(Head(chains)[1]), r.val[2]>>))

resolve_comparison(a, left_side, chains) ==
    LET l == resolve_expression(a, left_side)
    IN  IF ~l.ok THEN l
        ELSE IF ~is_int(l.val) THEN RFail(l.a, "Expected int")
        ELSE LET c == resolve_chains(l.a, chains, <<>>)
             IN  IF ~c.ok THEN c
                 ELSE ROk(c.a, <<"Boolean",
                          <<"Comparison", <<"IntComparison", l.val[2], c.val>> >> >>)

resolve_expression(a, expr) ==
    CASE expr[1] = "Literal" -> resolve_literal(a, expr[2])
      [] expr[1] = "Prefix" -> resolve_prefix(a, expr[3], expr[2])
      [] expr[1] = "BinaryOp" -> resolve_binary(a, expr[2], expr[3], expr[4])
      [] expr[1] = "Comparison" -> resolve_comparison(a, expr[2], expr[3])

resolve_print_statement(a, expr) == resolve_expression(a, expr)

\* The Declaration arm of resolve_statement.
resolve_declaration(a, name, expr) ==
    LET a1 == get_free_identifier(a)
        identifier == a1.current_identifier
        r == resolve_expression(a1, expr)
        var_type == to_var_type(r.val)
        a2 == push_local(r.a, <<identifier, var_type>>)
        a3 == insert_variable(a2, name,
                  [identifier |-> identifier, var_type |-> var_type])
    IN  IF ~r.ok THEN r
        ELSE ROk(a3, <<"Assignment", identifier, r.val>>)

\* An Assignment arm that binds the name anew, as a Declaration does.
assignment_declares(a, name, expr) == resolve_declaration(a, name, expr)

\* The Assignment arm of resolve_statement.
resolve_assignment(a, name, expr) ==
    LET r == resolve_expression(a, expr)
    IN  IF ~r.ok THEN r
        ELSE IF name \notin DOMAIN last_variables(r.a)
        THEN RFail(r.a, "variable " \o name \o " not found")
        ELSE LET var_info == last_variables(r.a)[name]
                 var_type == to_var_type(r.val)
             IN  IF var_type # var_info.var_type
                 THEN RFail(r.a, "expression is of type " \o var_type
                                  \o ", but variable " \o name \o " is not.")
                 ELSE ROk(r.a, <<"Assignment", var_info.identifier, r.val>>)

resolve_statement(a, stmt) ==
    CASE stmt[1] = "Print" ->
            LET r == resolve_print_statement(a, stmt[2])
            IN  IF ~r.ok THEN r ELSE ROk(r.a, <<"Print", r.val>>)
      [] stmt[1] = "Assert" ->
            LET r == resolve_expression(a, stmt[2])
            IN  IF ~r.ok THEN r
                ELSE IF ~is_boolean(r.val) THEN RFail(r.a, "Expected bool")
                ELSE ROk(r.a, <<"Assert", r.val[2], stmt[3]>>)
      [] stmt[1] = "Declaration" -> resolve_declaration(a, stmt[2], stmt[3])
      [] stmt[1] = "Assignment" -> resolve_assignment(a, stmt[2], stmt[3])

\* A function entry whose scope starts with the names of the scope before.
enter_sharing_scope(a) ==
    [a EXCEPT !.function_metadata = <<"Some", <<>> >>,
              !.scopes = Append(@, IF @ = <<>>
                                   THEN [parent |-> <<"None">>, variables |-> HashMap_new]
                                   ELSE @[Len(@)])]

\* The first two statements of resolve_top_level_statement.
enter_function(a) ==
    [a EXCEPT !.function_metadata = <<"Some", <<>> >>,
              !.scopes = Append(@, [parent |-> <<"None">>, variables |-> HashMap_new])]

(***************************************************************************)
(* CodeGen (code_gen.rs).  g is the code generator while it compiles one   *)
(* function: [blocks, layout, position, next_value, globals, local_vars,   *)
(* panic].  blocks are the function's basic blocks in creation order, each *)
(* [name, instrs]; layout is their order in the function; position is the  *)
(* block the builder inserts at; globals are the module's string           *)
(* constants.  A value is <<"const", n>>, <<"reg", k>> or <<"global", k>>. *)
(* Every compile function returns the generator, expression ones           *)
(* [g, val].                                                               *)
(***************************************************************************)
\* crate::IntWidth
IntWidth == 32

Emit(g, instr) ==
    [g EXCEPT !.blocks[g.position].instrs = Append(@, instr)]

\* An instruction of the builder that defines a value: [g, val].
Build(g, instr) ==
    [g |-> [Emit(g, instr) EXCEPT !.next_value = @ + 1],
     val |-> <<"reg", g.next_value>>]

\* context.insert_basic_block_after(block, name): [g, block].
insert_basic_block_after(g, block, name) ==
    LET new == Len(g.blocks) + 1
        at == CHOOSE i \in 1..Len(g.layout) : g.layout[i] = block
    IN  [g |-> [g EXCEPT !.blocks = Append(@, [name |-> name, instrs |-> <<>>]),
                         !.layout = SubSeq(@, 1, at) \o <<new>>
                                        \o SubSeq(@, at + 1, Len(@))],
         block |-> new]

\* A builder that stays in the block it is in.
stay_in_block(g, block) == g

position_at_end(g, block) == [g EXCEPT !.position = block]

\* self.local_vars.get(identifier).unwrap(): [g, val], a panic without a slot.
get_local(g, identifier) ==
    IF identifier \in DOMAIN g.local_vars
    THEN [g |-> g, val |-> g.local_vars[identifier]]
    ELSE [g |-> [g EXCEPT !.panic = TRUE], val |-> <<"const", 0>>]

\* builder.build_global_string_ptr(string, name): [g, val].
build_global_string_ptr(g, string) ==
    [g |-> [g EXCEPT !.globals = Append(@, string)],
     val |-> <<"global", Len(g.globals) + 1>>]

\* Each step of a compile function is a local operator applied to the
\* result of the step before it, in the order of the source's statements.
RECURSIVE compile_int_expression(_, _)
compile_int_expression(g, expr) ==
    LET negated(e) == Build(e.g, <<"sub", e.g.next_value, <<"const", 0>>, e.val>>)
        op == CASE expr[3] = "Plus" -> "add"
                [] expr[3] = "Minus" -> "sub"
                [] expr[3] = "Multiply" -> "mul"
                [] expr[3] = "Divide" -> "sdiv"
        combined(l, r) == Build(r.g, <<op, r.g.next_value, l.val, r.val>>)
        with_left(l) == combined(l, compile_int_expression(l.g, expr[4]))
        loaded(p) == Build(p.g, <<"load", p.g.next_value, "int", p.val>>)
    IN  CASE expr[1] = "Literal" -> [g |-> g, val |-> <<"const", expr[2]>>]
          [] expr[1] = "Negate" -> negated(compile_int_expression(g, expr[2]))
          [] expr[1] = "BinaryOperation" ->
                 with_left(compile_int_expression(g, expr[2]))
          [] expr[1] = "Var" -> loaded(get_local(g, expr[2]))

IntPredicate(op) ==
    CASE op = "Equal" -> "EQ"         [] op = "NotEquals" -> "NE"
      [] op = "LessThan" -> "SLT"     [] op = "LessThanEquals" -> "SLE"
      [] op = "GreaterThan" -> "SGT"  [] op = "GreaterThanEquals" -> "SGE"

\* The first loop of compile_comparison: [g, parts].
RECURSIVE compile_links(_, _, _, _)
compile_links(g, current_left, chains, parts) ==
    LET pushed(r, c) ==
            compile_links(c.g, r.val, Tail(chains), Append(parts, c.val))
        with_right(r) ==
            pushed(r, Build(r.g, <<"icmp", r.g.next_value,
                                   IntPredicate(Head(chains)[1]), current_left,
                                   r.val>>))
    IN  IF chains = <<>> THEN [g |-> g, parts |-> parts]
        ELSE with_right(compile_int_expression(g, Head(chains)[2]))

\* A fold that keeps the first link only.
fold_first(g, result, parts) == [g |-> g, val |-> result]

\* The second loop of compile_comparison: [g, val].
RECURSIVE fold_and(_, _, _)
fold_and(g, result, parts) ==
    LET folded(a) == fold_and(a.g, a.val, Tail(parts))
    IN  IF parts = <<>> THEN [g |-> g, val |-> result]
        ELSE folded(Build(g, <<"and", g.next_value, result, Head(parts)>>))

\* chains.len() - 1 and parts[0] panic on an empty chain.
compile_comparison(g, comparison) ==
    LET linked(c) == fold_and(c.g, c.parts[1], Tail(c.parts))
        with_left(l) ==
            IF comparison[3] = <<>>
            THEN [g |-> [l.g EXCEPT !.panic = TRUE], val |-> <<"const", 0>>]
            ELSE linked(compile_links(l.g, l.val, comparison[3], <<>>))
    IN  with_left(compile_int_expression(g, comparison[2]))

\* A branch that takes the right operand's block when the left is true,
\* whatever the operator.
branch_right_when_true(op, left, right_block, short_block) ==
    <<"br", left, right_block, short_block>>

\* The build_conditional_branch of the Operator arm, by operator.
conditional_branch(op, left, right_block, short_block) ==
    IF op = "And" THEN <<"br", left, right_block, short_block>>
    ELSE <<"br", left, short_block, right_block>>

RECURSIVE compile_bool_expression(_, _)
compile_bool_expression(g, expr) ==
    LET negated(e) == Build(e.g, <<"xor", e.g.next_value, e.val, <<"const", 1>> >>)
        loaded(p) == Build(p.g, <<"load", p.g.next_value, "bool", p.val>>)
        \* The Operator arm, last step first.
        result_identifier == expr[2]
        op == expr[4]
        short_result == <<"const", IF op = "And" THEN 0 ELSE 1>>
        continued(g4, pointer) == Build(g4, <<"load", g4.next_value, "bool", pointer>>)
        with_right(right, short_block, continue_block, pointer) ==
            continued(
                position_at_end(
                    Emit(Emit(position_at_end(
                                  Emit(Emit(right.g, <<"store", pointer, right.val>>),
                                       <<"jump", continue_block>>),
                                  short_block),
                              <<"store", pointer, short_result>>),
                         <<"jump", continue_block>>),
                    continue_block),
                pointer)
        with_pointer(left, right_block, short_block, continue_block, p) ==
            with_right(
                compile_bool_expression(
                    position_at_end(
                        Emit(p.g, conditional_branch(op, left.val, right_block,
                                                     short_block)),
                        right_block),
                    expr[5]),
                short_block, continue_block, p.val)
        with_continue_block(left, right_block, short_block, b3) ==
            with_pointer(left, right_block, short_block, b3.block,
                         get_local(b3.g, result_identifier))
        with_short_block(left, right_block, b2) ==
            with_continue_block(left, right_block, b2.block,
                insert_basic_block_after(b2.g, b2.block, "continue_block"))
        with_right_block(left, b1) ==
            with_short_block(left, b1.block,
                insert_basic_block_after(b1.g, b1.block, "short_block"))
        with_left(left) ==
            with_right_block(left,
                insert_basic_block_after(left.g, left.g.position, "right_block"))
    IN  CASE expr[1] = "Literal" ->
                 [g |-> g, val |-> <<"const", IF expr[2] THEN 1 ELSE 0>>]
          [] expr[1] = "Not" -> negated(compile_bool_expression(g, expr[2]))
          [] expr[1] = "Comparison" -> compile_comparison(g, expr[2])
          [] expr[1] = "Operator" -> with_left(compile_bool_expression(g, expr[3]))
          [] expr[1] = "Var" -> loaded(get_local(g, expr[2]))

\* stmt is the PrintStatement, <<"Int", e>> or <<"Boolean", e>>.
compile_print_statement(g, stmt) ==
    LET called(f, v) ==
            Build(v.g, <<"call", v.g.next_value, "printf", <<f.val, v.val>> >>).g
        with_format(f) ==
            called(f, IF stmt[1] = "Int"
                      THEN compile_int_expression(f.g, stmt[2])
                      ELSE compile_bool_expression(f.g, stmt[2]))
    IN  with_format(build_global_string_ptr(g, IF stmt[1] = "Int" THEN "%d\n"
                                               ELSE "Bool(%d)\n"))

compile_const_printf(g, msg) ==
    LET called(f) == Build(f.g, <<"call", f.g.next_value, "printf", <<f.val>> >>).g
    IN  called(build_global_string_ptr(g, msg))

compile_assert(g, expr, message) ==
    LET failing(g1) ==
            IF message[1] = "Some"
            THEN compile_const_printf(g1, "Assert failed: " \o message[2] \o "\n")
            ELSE compile_const_printf(g1, "Assert failed\n")
        with_continue_block(c, fail_block, b2) ==
            position_at_end(
                Emit(Emit(failing(position_at_end(
                                      Emit(b2.g, <<"br", c.val, b2.block, fail_block>>),
                                      fail_block)),
                          <<"call", 0, "abort", <<>> >>),
                     <<"unreachable">>),
                b2.block)
        with_fail_block(c, b1) ==
            with_continue_block(c, b1.block,
                insert_basic_block_after(b1.g, b1.block, "continue_block"))
        with_condition(c) ==
            with_fail_block(c,
                insert_basic_block_after(c.g, c.g.position, "fail_block"))
    IN  with_condition(compile_bool_expression(g, expr))

compile_statement(g, stmt) ==
    LET stored(p, v) == Emit(v.g, <<"store", p.val, v.val>>)
        with_pointer(p) ==
            stored(p, IF stmt[3][1] = "Int"
                      THEN compile_int_expression(p.g, stmt[3][2])
                      ELSE compile_bool_expression(p.g, stmt[3][2]))
    IN  CASE stmt[1] = "Print" -> compile_print_statement(g, stmt[2])
          [] stmt[1] = "Assert" -> compile_assert(g, stmt[2], stmt[3])
          [] stmt[1] = "Assignment" -> with_pointer(get_local(g, stmt[2]))

\* A function entry that allocates no slot.
no_locals(g, locals) == g

\* The loop over locals of compile_top_level_statement.
RECURSIVE allocate_locals(_, _)
allocate_locals(g, locals) ==
    LET identifier == Head(locals)[1]
        inserted(var) ==
            allocate_locals(
                [var.g EXCEPT !.local_vars =
                    [i \in DOMAIN @ \cup {identifier} |->
                        IF i = identifier THEN var.val ELSE @[i]]],
                Tail(locals))
    IN  IF locals = <<>> THEN g
        ELSE inserted(Build(g, <<"alloca", g.next_value,
                                 IF Head(locals)[2] = "Int" THEN "int" ELSE "bool">>))

\* The loop over statements of compile_top_level_statement; a panic in a
\* statement ends it.
RECURSIVE compile_statements(_, _)
compile_statements(g, statements) ==
    LET compiled(g1) == IF g1.panic THEN g1
                        ELSE compile_statements(g1, Tail(statements))
    IN  IF statements = <<>> THEN g
        ELSE compiled(compile_statement(g, Head(statements)))

\* function is <<"Function", name, body, locals>>; globals are the module's.
compile_top_level_statement(globals, function) ==
    LET g0 == [blocks |-> << [name |-> "entry", instrs |-> <<>>] >>,
               layout |-> <<1>>, position |-> 1, next_value |-> 1,
               globals |-> globals, local_vars |-> HashMap_new, panic |-> FALSE]
        g1 == allocate_locals(g0, function[4])
        g2 == compile_statements(g1, function[3])
    IN  Emit(g2, <<"ret", <<"const", 0>> >>)

\* context.create_module("main"), before compile_libc_definitions.
Module_new == [declared |-> <<>>, functions |-> <<>>, globals |-> <<>>]

\* module.add_function(name, ..): a name the module already has gets a suffix.
RECURSIVE Decimal(_)
Decimal(n) ==
    LET d == CHOOSE c \in Digits : DigitValue(c) = n % 10
    IN  IF n < 10 THEN d ELSE Decimal(n \div 10) \o d

add_function_name(functions, name) ==
    IF \A i \in 1..Len(functions) : functions[i].name # name THEN name
    ELSE name \o "." \o Decimal(Len(functions))

(***************************************************************************)
(* The generated program: the meaning of the instructions the builder      *)
(* emits, over IntWidth-bit two's complement integers.                     *)
(***************************************************************************)
IntMin == -IntMax - 1

add32(a, b) ==
    IF b > 0 /\ a > IntMax - b THEN (a - IntMax - 1) + (b - IntMax - 1)
    ELSE IF b < 0 /\ a < IntMin - b THEN (a + IntMax + 1) + (b + IntMax + 1)
    ELSE a + b

neg32(a) == IF a = IntMin THEN IntMin ELSE -a

sub32(a, b) == IF b = IntMin THEN add32(add32(a, IntMax), 1) ELSE add32(a, -b)

\* A product computed as a sum.
product_as_sum(a, b) == add32(a, b)

RECURSIVE mul32(_, _)
mul32(a, b) ==
    IF b = 0 THEN 0
    ELSE IF b = IntMin THEN (IF a % 2 = 0 THEN 0 ELSE IntMin)
    ELSE IF b < 0 THEN neg32(mul32(a, -b))
    ELSE LET h == mul32(a, b \div 2)
             d == add32(h, h)
         IN  IF b % 2 = 1 THEN add32(d, a) ELSE d

Abs(a) == IF a < 0 THEN -a ELSE a

\* sdiv where it is defined: b # 0 and not IntMin / -1.
sdiv32(a, b) ==
    IF a = IntMin
    THEN IF b = IntMin THEN 1
         ELSE LET q == (IntMax \div Abs(b))
                       + (IF (IntMax % Abs(b)) + 1 = Abs(b) THEN 1 ELSE 0)
              IN  IF b > 0 THEN -q ELSE q
    ELSE IF b = IntMin THEN 0
    ELSE LET q == Abs(a) \div Abs(b)
         IN  IF (a < 0) = (b < 0) THEN q ELSE -q

sdiv_defined(a, b) == b # 0 /\ ~(a = IntMin /\ b = -1)

icmp(pred, a, b) ==
    LET r == CASE pred = "EQ" -> a = b   [] pred = "NE" -> a # b
               [] pred = "SLT" -> a < b  [] pred = "SLE" -> a <= b
               [] pred = "SGT" -> a > b  [] pred = "SGE" -> a >= b
    IN  IF r THEN 1 ELSE 0

\* The values an undefined result (a division sdiv does not define, a load of
\* a slot never stored to) may show.
UndefValues(type) == IF type = "bool" THEN {0, 1} ELSE {0, 1, -1}

NoFrame == [function |-> 0, block |-> 0, ip |-> 0, regs |-> <<>>, memory |-> <<>>]

Value(regs, v) == IF v[1] = "reg" THEN regs[v[2]] ELSE v[2]

SetReg(regs, k, n) ==
    [i \in 1..(IF k > Len(regs) THEN k ELSE Len(regs)) |->
        IF i = k THEN n ELSE IF i <= Len(regs) THEN regs[i] ELSE 0]

\* The Tokenizer as it stands, and the assignment of a new one to it.
Self == [code |-> code, line |-> line, char |-> char]

SetSelf(t) == code' = t.code /\ line' = t.line /\ char' = t.char

(***************************************************************************)
(* Source texts: every concatenation of up to MaxChunks chunks, of single  *)
(* characters and of words, and a list of programs.                        *)
(***************************************************************************)
RECURSIVE Cat(_)
Cat(chunks) == IF chunks = <<>> THEN <<>> ELSE Head(chunks) \o Cat(Tail(chunks))

W_print == <<"p", "r", "i", "n", "t">>
W_true == <<"t", "r", "u", "e">>
W_false == <<"f", "a", "l", "s", "e">>
W_assert == <<"a", "s", "s", "e", "r", "t">>
W_let == <<"l", "e", "t">>
W_set == <<"s", "e", "t">>
W_oops == <<"\"", "o", "o", "p", "s", "\"">>
W_percent == <<"\"", "%", "d", "\"">>
W_big == <<"2", "1", "4", "7", "4", "8", "3", "6", "4", "8">>
W_max == <<"2", "1", "4", "7", "4", "8", "3", "6", "4", "7">>

CharChunks == {<<"=">>, <<"!">>, <<"<">>, <<"&">>, <<"1">>, <<"a">>,
               <<"\n">>, <<"#">>, <<"\"">>, <<"@">>}

WordChunks == {W_print, W_true, W_assert, W_let, W_set, <<"x">>, <<" ">>}

\* Expressions `x1 op1 x2 ... xn` of up to MaxOperands operands: every choice
\* of binary operators, the operands all integers, all names or all
\* booleans, and at most one operand with a prefix operator.
BinaryLexemes == {<<"&", "&">>, <<"<">>, <<"=", "=">>, <<"+">>, <<"*">>, <<"/">>}

Atoms == [int |-> << <<"7">>, <<"2">>, <<"1">>, <<"3">>, <<"5">> >>,
          name |-> << <<"a">>, <<"b">>, <<"c">>, <<"d">>, <<"e">> >>,
          bool |-> <<W_true, W_false, W_true, W_false, W_true>>]

Atom(style, i) == Atoms[style][((i - 1) % 5) + 1]

\* Operand i and what follows it; prefix is <<k, lexeme>>, k = 0 for none.
RECURSIVE ExprText(_, _, _, _)
ExprText(ops, style, prefix, i) ==
    (IF prefix[1] = i THEN prefix[2] ELSE <<>>) \o Atom(style, i)
        \o (IF i > Len(ops) THEN <<>>
            ELSE ops[i] \o ExprText(ops, style, prefix, i + 1))

\* The lexemes of the binary operators, one pair for each Binary level.
SameLevelLexemes ==
    << << <<"&", "&">>, <<"|", "|">> >>, << <<"+">>, <<"-">> >>, << <<"*">>, <<"/">> >> >>

\* `x1 op1 x2 op2 x3` with both operators of one level, the operands
\* booleans for `&&` and `||` and the integers 7, 2, 1 otherwise.
SameLevelText(level, i, j) ==
    LET style == IF level = 1 THEN "bool" ELSE "int"
    IN  ExprText(<<SameLevelLexemes[level][i], SameLevelLexemes[level][j]>>,
                 style, <<0, <<>> >>, 1)

PrintProgram(text) == <<"$", "{">> \o W_print \o <<" ">> \o text \o <<";", "}">>

Programs ==
    { Cat(<<W_print, <<" ", "5", ";">> >>),
      W_big, W_max, <<"0", "0", "7">>,
      Cat(<<W_print, <<"x">> >>), Cat(<<W_let, <<"s">> >>),
      PrintProgram(<<"1", "+", "2", "*", "3">>),
      PrintProgram(<<"(", "1", "+", "2", ")", "*", "3">>),
      PrintProgram(<<"7", "/", "0">>),
      PrintProgram(<<"5", "-", "7">>),
      PrintProgram(W_false \o <<"|", "|">> \o W_true),
      <<"|">>, <<">", "=", ">">>, <<" ", ";">>,
      PrintProgram(<<"a", "<", "b", "<", "=", "c", "<", "d">>),
      PrintProgram(<<"1", "<", "2", "<", "=", "3", "<", "4">>),
      PrintProgram(<<"1", "=", "=", "2", "!", "=", "3", ">", "4", ">", "=", "5">>),
      PrintProgram(<<"1", "<", "2", "&", "&", "2", "<", "1">>),
      PrintProgram(<<"!", "a", "&", "&", "b">>),
      PrintProgram(<<"!", "!">> \o W_true),
      PrintProgram(<<"1", "<", "(", "2", "<", "3", ")">>),
      Cat(<<<<"$", "{">>, W_assert, <<" ", "1", "=", "=", "2", ",">>, W_oops,
            <<";", "}">> >>),
      Cat(<<<<"$", "{">>, W_assert, <<" ", "1", "=", "=", "1", ";">>,
            W_print, <<" ", "1", ";", "}">> >>),
      Cat(<<<<"$", "{">>, W_assert, <<" ">>, W_false, <<";", "}">> >>),
      Cat(<<<<"$", "{">>, W_let, <<" ", "x", " ", "=", " ", "1", ";">>,
            W_set, <<" ", "x", " ", "=", " ">>, W_true, <<";", "}">> >>),
      Cat(<<<<"$", "{">>, W_print, <<" ", "1", ";", "}", "\n", "$", "{">>,
            W_print, <<" ", "2", ";", "}">> >>),
      Cat(<<<<"#", "c", "\n", "$", "{", "}">> >>),
      <<"x", "$", "{", "}">>, <<";">>, <<"$">>, <<"$", "{">>,
      Cat(<<<<"$", "{">>, W_print>>),
      Cat(<<<<"$", "{">>, W_print, <<" ", "1">> >>),
      Cat(<<<<"$", "{">>, W_assert, <<" ", "1", ",">> >>),
      Cat(<<<<"$", "{">>, W_print, <<" ", "(", "1", ";", "}">> >>),
      PrintProgram(W_false \o <<"&", "&", "1", "/", "0", "=", "=", "0">>),
      PrintProgram(W_true \o <<"|", "|", "1", "/", "0", "=", "=", "0">>),
      PrintProgram(W_true \o <<"&", "&", "(">> \o W_false \o <<"|", "|">>
                       \o W_true \o <<")">>),
      PrintProgram(W_false \o <<"|", "|">> \o W_true \o <<"&", "&">> \o W_false),
      PrintProgram(<<"7", "/", "2">>),
      PrintProgram(<<"-", "7", "/", "2">>),
      PrintProgram(<<"7", "/", "-", "2">>),
      PrintProgram(<<"(", "-">> \o W_max \o <<"-", "1", ")", "/", "-", "1">>),
      PrintProgram(<<"(", "-">> \o W_max \o <<"-", "1", ")", "/", "2">>),
      Cat(<<<<"$", "{">>, W_assert, <<" ", "1", "=", "=", "2", ";">>,
            W_print, <<" ", "1", ";", "}">> >>),
      Cat(<<<<"$", "{">>, W_print, <<" ", "1", ";">>, W_assert, <<" ">>, W_false,
            <<",">>, W_oops, <<";">>, W_print, <<" ", "2", ";", "}">> >>),
      Cat(<<<<"$", "{">>, W_assert, <<" ", "1", "=", "=", "2", ",">>, W_percent,
            <<";", "}">> >>),
      PrintProgram(<<"2", "<", "1", "<", "1", "/", "0">>),
      PrintProgram(<<"-", "7", "<", "-", "2", "<", "2", "-", "3">>),
      PrintProgram(<<"1", "&", "&">> \o W_true),
      PrintProgram(W_true \o <<"&", "&", "1">>),
      PrintProgram(<<"(">> \o W_true \o <<"&", "&">> \o W_false \o <<")", "&", "&", "1">>),
      PrintProgram(<<"(">> \o W_true \o <<"|", "|">> \o W_false \o <<")", "=", "=", "1">>),
      PrintProgram(<<"1", "<", "2", "<", "(">> \o W_true \o <<"|", "|">> \o W_false
                       \o <<")">>),
      PrintProgram(<<"1", "+", "(">> \o W_true \o <<"&", "&">> \o W_false \o <<")">>) }

(***************************************************************************)
(* build (lib.rs): the input file is read and handed to Tokenizer::new.    *)
(***************************************************************************)
Read(text) ==
    /\ source' = text
    /\ code' = Tokenizer_new(text).code
    /\ line' = Tokenizer_new(text).line
    /\ char' = Tokenizer_new(text).char

ReadToString ==
    /\ pc = "read"
    /\ \/ /\ \/ \E text \in Programs : Read(text)
             \/ \E k \in 0..MaxChunks : \E cs \in [1..k -> CharChunks] : Read(Cat(cs))
             \/ \E k \in 0..MaxChunks : \E cs \in [1..k -> WordChunks] : Read(Cat(cs))
             \/ \E a, b, c \in {"1", "2", "3"} :
                    Read(PrintProgram(<<a, "+", b, "*", c>>))
             \/ \E k \in 0..MaxOperands - 1 : \E ops \in [1..k -> BinaryLexemes] :
                    \E style \in {"int", "name", "bool"} :
                       \E prefix \in (0..k + 1) \X {<<"!">>, <<"-">>} :
                          Read(PrintProgram(ExprText(ops, style, prefix, 1)))
             \/ \E level \in 1..3 : \E i, j \in 1..2 :
                    Read(PrintProgram(SameLevelText(level, i, j)))
          /\ pc' = "tokenize"
          /\ UNCHANGED err
       \/ /\ pc' = "failed"
          /\ err' = <<"anyhow", "Reading input file">>
          /\ UNCHANGED <<source, code, line, char>>
    /\ UNCHANGED <<tokens, ast, analyzer_vars, codegen_vars, program_vars>>

(***************************************************************************)
(* Tokenizer::tokenize, one action for each arm of its loop.               *)
(***************************************************************************)
TokenizeComment ==
    /\ pc = "tokenize" /\ code # <<>> /\ Head(code) = "#"
    /\ SetSelf(consume_comment(Self))
    /\ UNCHANGED <<pc, source, tokens, ast, analyzer_vars, codegen_vars, program_vars, err>>

TokenizeString ==
    /\ pc = "tokenize" /\ code # <<>> /\ Head(code) = "\""
    /\ LET r == consume_string(Self)
       IN  /\ SetSelf(r.t)
           /\ IF r.ok
              THEN tokens' = Append(tokens, r.token) /\ UNCHANGED <<pc, err>>
              ELSE pc' = "failed" /\ err' = r.err /\ UNCHANGED tokens
    /\ UNCHANGED <<source, ast, analyzer_vars, codegen_vars, program_vars>>

TokenizeNumber ==
    /\ pc = "tokenize" /\ code # <<>> /\ is_ascii_digit(Head(code))
    /\ LET r == consume_number(Self)
       IN  /\ SetSelf(r.t)
           /\ IF r.panic
              THEN /\ pc' = "panicked" /\ err' = <<"panic", "ParseIntError">>
                   /\ UNCHANGED tokens
              ELSE tokens' = Append(tokens, r.token) /\ UNCHANGED <<pc, err>>
    /\ UNCHANGED <<source, ast, analyzer_vars, codegen_vars, program_vars>>

TokenizeIdentifier ==
    /\ pc = "tokenize" /\ code # <<>> /\ is_ascii_alphabetic(Head(code))
    /\ LET r == consume_identifier(Self)
       IN  SetSelf(r.t) /\ tokens' = Append(tokens, r.token)
    /\ UNCHANGED <<pc, source, ast, analyzer_vars, codegen_vars, program_vars, err>>

TokenizeWhitespace ==
    /\ pc = "tokenize" /\ code # <<>> /\ is_ascii_whitespace(Head(code))
    /\ SetSelf(consume_whitespace(Self))
    /\ UNCHANGED <<pc, source, tokens, ast, analyzer_vars, codegen_vars, program_vars, err>>

TokenizeDoubleSymbol ==
    /\ pc = "tokenize" /\ code # <<>> /\ Head(code) \in DoubleFirst
    /\ LET c == Head(code)
           r == consume_double_symbol(Self, DoubleNext(c), DoubleSingle(c),
                                      DoubleDouble(c))
       IN  SetSelf(r.t) /\ tokens' = Append(tokens, r.token)
    /\ UNCHANGED <<pc, source, ast, analyzer_vars, codegen_vars, program_vars, err>>

TokenizeSymbol ==
    /\ pc = "tokenize" /\ code # <<>>
    /\ Head(code) \notin {"#", "\""} \cup DoubleFirst
    /\ ~is_ascii_alphanumeric(Head(code)) /\ ~is_ascii_whitespace(Head(code))
    /\ LET c == Head(code)
           t == Tokenizer_void(Self)
       IN  /\ SetSelf(t)
           /\ IF c \in SingleChars
              THEN /\ tokens' = Append(tokens, Tokenizer_token(t, SingleToken(c)))
                   /\ UNCHANGED <<pc, err>>
              ELSE /\ pc' = "failed"
                   /\ err' = Tokenizer_error(t, "Unexpected character: " \o c)
                   /\ UNCHANGED tokens
    /\ UNCHANGED <<source, ast, analyzer_vars, codegen_vars, program_vars>>

TokenizeEnd ==
    /\ pc = "tokenize" /\ code = <<>>
    /\ tokens' = Append(tokens, Tokenizer_token(Self, <<"Eof">>))
    /\ pc' = "parse"
    /\ UNCHANGED <<source, code, line, char, ast, analyzer_vars, codegen_vars,
                   program_vars, err>>

(***************************************************************************)
(* parse (parsing/mod.rs), after tokenize: Parser::new(tokens).module().   *)
(***************************************************************************)
Parse ==
    /\ pc = "parse"
    /\ LET r == Parser_module(tokens)
       IN  IF r.ok
           THEN pc' = "resolve" /\ ast' = r.val /\ UNCHANGED err
           ELSE pc' = "failed" /\ err' = r.err /\ UNCHANGED ast
    /\ UNCHANGED <<source, tokenizer_vars, analyzer_vars, codegen_vars, program_vars>>

(***************************************************************************)
(* Analyzer::resolve_module (type_analyzer.rs), one action for each        *)
(* function entered, statement resolved and function left.                 *)
(***************************************************************************)
Analyzer == [scopes |-> scopes, function_metadata |-> function_metadata,
             current_identifier |-> current_identifier]

SetAnalyzer(a) ==
    /\ scopes' = a.scopes
    /\ function_metadata' = a.function_metadata
    /\ current_identifier' = a.current_identifier

\* The statements of the function resolve_module is at.
Statements == ast[2][function_index][2]

ResolveEnterFunction ==
    /\ pc = "resolve" /\ function_index <= Len(ast[2]) /\ statement_index = 0
    /\ SetAnalyzer(enter_function(Analyzer))
    /\ statement_index' = 1
    /\ body' = <<>>
    /\ UNCHANGED <<pc, source, tokenizer_vars, ast, function_index, ir,
                   codegen_vars, program_vars, err>>

ResolveStatement ==
    /\ pc = "resolve" /\ function_index <= Len(ast[2])
    /\ statement_index \in 1..Len(Statements)
    /\ LET r == resolve_statement(Analyzer, Statements[statement_index])
       IN  /\ SetAnalyzer(r.a)
           /\ IF r.ok
              THEN /\ body' = Append(body, r.val)
                   /\ statement_index' = statement_index + 1
                   /\ UNCHANGED <<pc, err>>
              ELSE /\ pc' = "failed" /\ err' = r.err
                   /\ UNCHANGED <<body, statement_index>>
    /\ UNCHANGED <<source, tokenizer_vars, ast, function_index, ir,
                   codegen_vars, program_vars>>

ResolveLeaveFunction ==
    /\ pc = "resolve" /\ function_index <= Len(ast[2])
    /\ statement_index = Len(Statements) + 1
    /\ ir' = Append(ir, <<"Function", "main", body, function_metadata[2]>>)
    /\ function_index' = function_index + 1
    /\ statement_index' = 0
    /\ body' = <<>>
    /\ UNCHANGED <<pc, source, tokenizer_vars, ast, scopes, function_metadata,
                   current_identifier, codegen_vars, program_vars, err>>

ResolveModuleEnd ==
    /\ pc = "resolve" /\ function_index > Len(ast[2])
    /\ pc' = "codegen"
    /\ UNCHANGED <<source, tokenizer_vars, ast, analyzer_vars, codegen_vars,
                   program_vars, err>>

Resolve ==
    \/ ResolveEnterFunction \/ ResolveStatement
    \/ ResolveLeaveFunction \/ ResolveModuleEnd

(***************************************************************************)
(* Modules handed to resolve_module directly: up to MaxFunctions           *)
(* functions holding up to MaxStatements statements of StatementPool       *)
(* between them.                                                           *)
(***************************************************************************)
Lit(l) == <<"Literal", l>>

E_x == Lit(<<"Variable", "x">>)

E_int(n) == Lit(<<"Integer", n>>)

E_bool(b) == Lit(<<"Boolean", b>>)

StatementPool ==
    { <<"Declaration", "x", E_int(1)>>,
      <<"Declaration", "x", <<"BinaryOp", E_bool(TRUE), "Or", E_bool(FALSE)>> >>,
      <<"Declaration", "y", E_x>>,
      <<"Declaration", "x", <<"Comparison", E_x, << <<"Equals", E_int(1)>> >> >> >>,
      <<"Assignment", "x", E_int(2)>>,
      <<"Assignment", "x", <<"BinaryOp", E_x, "And", E_bool(TRUE)>> >>,
      <<"Assignment", "x", E_bool(TRUE)>>,
      <<"Print", <<"BinaryOp", E_x, "Plus", E_int(1)>> >>,
      <<"Assert", E_x, <<"Some", "oops">> >> }

\* The module of n functions that holds statements s, statement j in function f[j].
SplitModule(s, n, f) ==
    <<"Module",
      [i \in 1..n |->
         <<"MainFunction",
           SubSeq(s, 1 + Cardinality({j \in 1..Len(s) : f[j] < i}),
                     Cardinality({j \in 1..Len(s) : f[j] <= i}))>>]>>

\* The ways to deal k statements to n functions in order.
Splits(k, n) ==
    {f \in [1..k -> 1..n] : \A j \in 1..k - 1 : f[j] <= f[j + 1]}

\* Analyzer::new().resolve_module(&ast), ast any module of the bounds.
ResolveModule ==
    /\ pc = "analyze"
    /\ \E k \in 0..MaxStatements, n \in 0..MaxFunctions :
          \E s \in [1..k -> StatementPool], f \in Splits(k, n) :
             ast' = SplitModule(s, n, f)
    /\ SetAnalyzer(Analyzer_new)
    /\ pc' = "resolve"
    /\ UNCHANGED <<source, tokenizer_vars, function_index, statement_index, body, ir,
                   codegen_vars, program_vars, err>>

(***************************************************************************)
(* CodeGen::compile_module and output_to_file, then the external tools of  *)
(* build (lib.rs).                                                         *)
(***************************************************************************)
CompileLibcDefinitions ==
    /\ pc = "codegen"
    /\ module' = [module EXCEPT !.declared = <<"printf", "abort">>]
    /\ pc' = "compile"
    /\ UNCHANGED <<source, tokenizer_vars, ast, analyzer_vars, local_vars,
                   program_vars, err>>

CompileTopLevelStatement ==
    /\ pc = "compile" /\ Len(module.functions) < Len(ir)
    /\ LET function == ir[Len(module.functions) + 1]
           g == compile_top_level_statement(module.globals, function)
       IN  /\ module' = [module EXCEPT
                  !.functions = Append(@,
                      [name |-> add_function_name(module.functions, function[2]),
                       blocks |-> g.blocks, layout |-> g.layout]),
                  !.globals = g.globals]
           /\ local_vars' = g.local_vars
           /\ IF g.panic
              THEN pc' = "panicked" /\ err' = <<"panic", "CodeGen">>
              ELSE UNCHANGED <<pc, err>>
    /\ UNCHANGED <<source, tokenizer_vars, ast, analyzer_vars, program_vars>>

CompileModuleEnd ==
    /\ pc = "compile" /\ Len(module.functions) = Len(ir)
    /\ pc' = "output"
    /\ UNCHANGED <<source, tokenizer_vars, ast, analyzer_vars, codegen_vars,
                   program_vars, err>>

OutputToFile ==
    /\ pc = "output"
    /\ pc' = "assemble"
    /\ UNCHANGED <<source, tokenizer_vars, ast, analyzer_vars, codegen_vars,
                   program_vars, err>>

\* llc is an external tool: it may be missing, and it may fail.
CompileToObjectfile ==
    /\ pc = "assemble"
    /\ \E result \in {"ok", "Llc not found on path", "Llc failed"} :
          IF result = "ok" THEN pc' = "link" /\ UNCHANGED err
          ELSE pc' = "failed" /\ err' = <<"anyhow", result>>
    /\ UNCHANGED <<source, tokenizer_vars, ast, analyzer_vars, codegen_vars,
                   program_vars>>

HasMain == \E i \in 1..Len(module.functions) : module.functions[i].name = "main"

\* clang or gcc is an external tool as well; without a main it cannot link.
CompileToBinary ==
    /\ pc = "link"
    /\ \E result \in {"ok", "Clang or gcc not found on path", "Clang/gcc failed"} :
          IF result = "ok" /\ HasMain THEN pc' = "built" /\ UNCHANGED err
          ELSE pc' = "failed"
               /\ err' = <<"anyhow", IF result = "ok" THEN "Clang/gcc failed"
                                     ELSE result>>
    /\ UNCHANGED <<source, tokenizer_vars, ast, analyzer_vars, codegen_vars,
                   program_vars>>

Codegen ==
    \/ CompileLibcDefinitions \/ CompileTopLevelStatement \/ CompileModuleEnd
    \/ OutputToFile \/ CompileToObjectfile \/ CompileToBinary

(***************************************************************************)
(* The binary build produced, run (main.rs): one action for each           *)
(* instruction executed.                                                   *)
(***************************************************************************)
Main == CHOOSE i \in 1..Len(module.functions) : module.functions[i].name = "main"

Spawn ==
    /\ pc = "built"
    /\ frame' = [function |-> Main, block |-> 1, ip |-> 1, regs |-> <<>>,
                 memory |-> <<>>]
    /\ pc' = "run"
    /\ UNCHANGED <<source, tokenizer_vars, ast, analyzer_vars, codegen_vars,
                   output, err>>

Instrs == module.functions[frame.function].blocks[frame.block].instrs

Running == pc = "run" /\ frame.ip <= Len(Instrs)

Instr == Instrs[frame.ip]

\* The frame after an instruction that defined register k as n.
Defined(k, n) ==
    [frame EXCEPT !.regs = SetReg(@, k, n), !.ip = @ + 1]

ExecArithmetic ==
    /\ Running /\ Instr[1] \in {"add", "sub", "mul", "and", "xor", "icmp"}
    /\ LET i == Instr
           op == i[1]
       IN  frame' =
             IF op = "icmp"
             THEN Defined(i[2], icmp(i[3], Value(frame.regs, i[4]),
                                           Value(frame.regs, i[5])))
             ELSE LET a == Value(frame.regs, i[3])
                      b == Value(frame.regs, i[4])
                  IN  Defined(i[2], CASE op = "add" -> add32(a, b)
                                      [] op = "sub" -> sub32(a, b)
                                      [] op = "mul" -> mul32(a, b)
                                      [] op = "and" -> a * b
                                      [] op = "xor" -> (a + b) % 2)
    /\ UNCHANGED <<pc, source, tokenizer_vars, ast, analyzer_vars, codegen_vars,
                   output, err>>

\* sdiv by zero and IntMin / -1 are undefined: a trap, or any value.
ExecDivide ==
    /\ Running /\ Instr[1] = "sdiv"
    /\ LET a == Value(frame.regs, Instr[3])
           b == Value(frame.regs, Instr[4])
       IN  IF sdiv_defined(a, b)
           THEN frame' = Defined(Instr[2], sdiv32(a, b)) /\ UNCHANGED pc
           ELSE \/ pc' = "trapped" /\ UNCHANGED frame
                \/ \E n \in UndefValues("int") :
                      frame' = Defined(Instr[2], n) /\ UNCHANGED pc
    /\ UNCHANGED <<source, tokenizer_vars, ast, analyzer_vars, codegen_vars,
                   output, err>>

ExecMemory ==
    /\ Running /\ Instr[1] \in {"alloca", "load", "store"}
    /\ LET i == Instr
       IN  CASE i[1] = "alloca" ->
                  frame' = [Defined(i[2], Len(frame.memory) + 1)
                               EXCEPT !.memory = Append(@, <<"undef">>)]
             [] i[1] = "store" ->
                  frame' = [frame EXCEPT
                               !.memory[Value(frame.regs, i[2])] =
                                   <<"value", Value(frame.regs, i[3])>>,
                               !.ip = @ + 1]
             [] i[1] = "load" ->
                  LET m == frame.memory[Value(frame.regs, i[4])]
                  IN  \E n \in (IF m[1] = "value" THEN {m[2]} ELSE UndefValues(i[3])) :
                         frame' = Defined(i[2], n)
    /\ UNCHANGED <<pc, source, tokenizer_vars, ast, analyzer_vars, codegen_vars,
                   output, err>>

\* The conversion specifications printf finds in a format, for the formats
\* of the model: those of compile_print_statement, and "%d" as a message.
Conversions(format) ==
    IF format \in {"%d\n", "Bool(%d)\n", "Assert failed: %d\n"} THEN 1 ELSE 0

\* printf(format, args): the format with the values its conversions take.
\* A conversion without an argument is undefined: a trap, or any value.
ExecPrintf ==
    /\ Running /\ Instr[1] = "call" /\ Instr[3] = "printf"
    /\ LET args == Instr[4]
           format == module.globals[args[1][2]]
           values == [k \in 1..Len(args) - 1 |-> Value(frame.regs, args[k + 1])]
       IN  IF Conversions(format) <= Len(values)
           THEN /\ output' = Append(output, <<format>> \o values)
                /\ frame' = [frame EXCEPT !.ip = @ + 1]
                /\ UNCHANGED pc
           ELSE \/ pc' = "trapped" /\ UNCHANGED <<frame, output>>
                \/ \E n \in UndefValues("int") :
                      /\ output' = Append(output, <<format>> \o values \o <<n>>)
                      /\ frame' = [frame EXCEPT !.ip = @ + 1]
                      /\ UNCHANGED pc
    /\ UNCHANGED <<source, tokenizer_vars, ast, analyzer_vars, codegen_vars, err>>

\* abort() does not return.
ExecAbort ==
    /\ Running /\ Instr[1] = "call" /\ Instr[3] = "abort"
    /\ pc' = "aborted"
    /\ UNCHANGED <<source, tokenizer_vars, ast, analyzer_vars, codegen_vars,
                   program_vars, err>>

ExecBranch ==
    /\ Running /\ Instr[1] \in {"br", "jump"}
    /\ LET i == Instr
           target == IF i[1] = "jump" THEN i[2]
                     ELSE IF Value(frame.regs, i[2]) = 1 THEN i[3] ELSE i[4]
       IN  frame' = [frame EXCEPT !.block = target, !.ip = 1]
    /\ UNCHANGED <<pc, source, tokenizer_vars, ast, analyzer_vars, codegen_vars,
                   output, err>>

ExecReturn ==
    /\ Running /\ Instr[1] = "ret"
    /\ pc' = "exited"
    /\ UNCHANGED <<source, tokenizer_vars, ast, analyzer_vars, codegen_vars,
                   program_vars, err>>

Exec ==
    \/ Spawn \/ ExecArithmetic \/ ExecDivide \/ ExecMemory \/ ExecPrintf
    \/ ExecAbort \/ ExecBranch \/ ExecReturn

Init ==
    /\ pc = "read"
    /\ source = <<>> /\ code = <<>> /\ line = 1 /\ char = 1
    /\ tokens = <<>>
    /\ ast = <<>>
    /\ scopes = <<>> /\ function_metadata = <<"None">> /\ current_identifier = 0
    /\ function_index = 1 /\ statement_index = 0 /\ body = <<>> /\ ir = <<>>
    /\ module = Module_new /\ local_vars = HashMap_new
    /\ frame = NoFrame /\ output = <<>>
    /\ err = <<"none">>

\* resolve_module on its own, on a module handed to it directly.
InitAst ==
    /\ ast = <<>>
    /\ pc = "analyze"
    /\ source = <<>> /\ code = <<>> /\ line = 1 /\ char = 1 /\ tokens = <<>>
    /\ scopes = <<>> /\ function_metadata = <<"None">> /\ current_identifier = 0
    /\ function_index = 1 /\ statement_index = 0 /\ body = <<>> /\ ir = <<>>
    /\ module = Module_new /\ local_vars = HashMap_new
    /\ frame = NoFrame /\ output = <<>>
    /\ err = <<"none">>

Next ==
    \/ ReadToString
    \/ TokenizeComment \/ TokenizeString \/ TokenizeNumber
    \/ TokenizeIdentifier \/ TokenizeWhitespace \/ TokenizeDoubleSymbol
    \/ TokenizeSymbol \/ TokenizeEnd
    \/ Parse
    \/ Resolve
    \/ Codegen
    \/ Exec

Spec == Init /\ [][Next]_vars

NextAst == ResolveModule \/ Resolve

SpecAst == InitAst /\ [][NextAst]_vars

(***************************************************************************)
(* Programs handed to resolve_module directly and then compiled and run:   *)
(* one function that declares the Booleans p and q, uses an expression of  *)
(* up to MaxOperands operands p and q under `&&` and `||`, in every        *)
(* nesting, and then prints p; and one function that prints a quotient.    *)
(***************************************************************************)
E_name(name) == Lit(<<"Variable", name>>)

\* The expressions of n operators over p and q.
RECURSIVE Trees(_)
Trees(n) ==
    IF n = 0 THEN {E_name("p"), E_name("q")}
    ELSE UNION {{<<"BinaryOp", l, op, r>> :
                    l \in Trees(i), r \in Trees(n - 1 - i), op \in {"And", "Or"}} :
                i \in 0..n - 1}

\* The statements that use expression e.
Uses(e) ==
    { <<"Print", e>>,
      <<"Assert", e, <<"Some", "oops">> >>,
      <<"Assert", e, <<"Some", "%d">> >>,
      <<"Assert", <<"Prefix", "Not", e>>, <<"None">> >>,
      <<"Assignment", "p", e>> }

Program(v, w, stmt) ==
    <<"Module",
      << <<"MainFunction",
           << <<"Declaration", "p", E_bool(v)>>,
              <<"Declaration", "q", E_bool(w)>>,
              stmt,
              <<"Print", E_name("p")>> >> >> >> >>

\* a is the dividend, its sign apart, and b the divisor: `print -a / b`.
Quotient(a, b) ==
    <<"Module",
      << <<"MainFunction",
           << <<"Print", <<"BinaryOp", <<"Prefix", "Negate", E_int(a)>>,
                           "Divide", E_int(b)>> >> >> >> >> >>

ResolveProgram ==
    /\ pc = "analyze"
    /\ \/ \E k \in 0..MaxOperands - 1 : \E e \in Trees(k) :
             \E v, w \in BOOLEAN : \E stmt \in Uses(e) :
                ast' = Program(v, w, stmt)
       \/ \E a \in {-7, 0, 7}, b \in {-2, 0, 2} : ast' = Quotient(a, b)
    /\ SetAnalyzer(Analyzer_new)
    /\ pc' = "resolve"
    /\ UNCHANGED <<source, tokenizer_vars, function_index, statement_index, body, ir,
                   codegen_vars, program_vars, err>>

NextRun == ResolveProgram \/ Resolve \/ Codegen \/ Exec

SpecRun == InitAst /\ [][NextRun]_vars

\* build from resolve_module to the linker, on the modules of ResolveModule.
NextGen == ResolveModule \/ Resolve \/ Codegen

SpecGen == InitAst /\ [][NextGen]_vars

(***************************************************************************)
(* The tokenizer's contract.                                               *)
(***************************************************************************)
Types(toks) == [i \in 1..Len(toks) |-> toks[i][1]]

\* tokenize has returned its tokens.
Tokenized ==
    /\ pc \notin {"read", "tokenize"}
    /\ err # <<"anyhow", "Reading input file">>
    /\ err[1] # "TokenizerError"
    /\ err # <<"panic", "ParseIntError">>

\* C1: tokenize ends with a token sequence or with a TokenizerError on
\* every source text, a run of digits of any magnitude included; it never
\* panics.
C1_TokenizeNeverPanics == err # <<"panic", "ParseIntError">>

\* The text after the end of the line text starts in.
RECURSIVE AfterLine(_)
AfterLine(text) ==
    IF text = <<>> THEN <<>>
    ELSE IF Head(text) = "\n" THEN Tail(text) ELSE AfterLine(Tail(text))

\* The text holds whitespace and comments only.
RECURSIVE Blank(_)
Blank(text) ==
    IF text = <<>> THEN TRUE
    ELSE IF is_ascii_whitespace(Head(text)) THEN Blank(Tail(text))
    ELSE IF Head(text) = "#" THEN Blank(AfterLine(Tail(text)))
    ELSE FALSE

\* Token p is not after token q in the source.
NotAfter(p, q) == p[2] < q[2] \/ (p[2] = q[2] /\ p[3] <= q[3])

PrintFive == Cat(<<W_print, <<" ", "5", ";">> >>)

PrintFiveTokens == << <<"Print">>, <<"Integer", 5>>, <<"SemiColon">>, <<"Eof">> >>

\* C2: when tokenize succeeds the tokens are in source order, whitespace
\* and comments give no token, the last token is Eof and no earlier one
\* is; `print 5;` gives [Print, Integer(5), SemiColon, Eof].
C2_TokensInOrderEofLast ==
    Tokenized =>
        /\ tokens # <<>>
        /\ tokens[Len(tokens)][1] = <<"Eof">>
        /\ \A i \in 1..Len(tokens) - 1 :
              tokens[i][1] # <<"Eof">> /\ NotAfter(tokens[i], tokens[i + 1])
        /\ Blank(source) => Types(tokens) = << <<"Eof">> >>
        /\ source = PrintFive => Types(tokens) = PrintFiveTokens

C2_PrintFiveTokenized ==
    pc = "parse" /\ source = PrintFive /\ Types(tokens) = PrintFiveTokens

KeywordSpellings == {"print", "true", "false", "assert", "let", "set"}

\* C3: a lexeme spelled print, true, false, assert, let or set becomes its
\* keyword token and never an Identifier.
C3_KeywordsNeverIdentifiers ==
    \A i \in 1..Len(tokens) :
        tokens[i][1][1] = "Identifier" => tokens[i][1][2] \notin KeywordSpellings

\* The two-character operators: second character, single and double token.
SymbolPairs ==
    [first \in {"=", "!", "<", ">", "&", "|"} |->
        CASE first = "=" -> <<"=", <<"Eq">>, <<"EqEq">> >>
          [] first = "!" -> <<"=", <<"Bang">>, <<"BangEq">> >>
          [] first = "<" -> <<"=", <<"Lt">>, <<"LtEq">> >>
          [] first = ">" -> <<"=", <<"Gt">>, <<"GtEq">> >>
          [] first = "&" -> <<"&", <<"And">>, <<"AndAnd">> >>
          [] first = "|" -> <<"|", <<"Or">>, <<"OrOr">> >>]

\* C4: at one of = ! < > & | the tokenizer emits the two-character token
\* and consumes both characters when the matching second character
\* follows; otherwise, at the end of the input too, it emits the
\* single-character token and consumes the first character only.
C4_DoubleSymbolLookahead ==
    [][(pc = "tokenize" /\ code # <<>> /\ Head(code) \in DOMAIN SymbolPairs) =>
          IF Tail(code) # <<>> /\ Head(Tail(code)) = SymbolPairs[Head(code)][1]
          THEN /\ code' = Tail(Tail(code))
               /\ Types(tokens') = Append(Types(tokens), SymbolPairs[Head(code)][3])
          ELSE /\ code' = Tail(code)
               /\ Types(tokens') = Append(Types(tokens), SymbolPairs[Head(code)][2])
      ]_vars

C4_DoubleThenSingle ==
    /\ pc = "parse" /\ source = <<"<", "=", "=">>
    /\ Types(tokens) = << <<"LtEq">>, <<"Eq">>, <<"Eof">> >>

(***************************************************************************)
(* The parser's contract.  The expressions of a module are those of its    *)
(* statements.                                                             *)
(***************************************************************************)
Parsed == ast # <<>>

NoParentheses == \A i \in 1..Len(source) : source[i] # "("

StatementExpression(stmt) ==
    IF stmt[1] \in {"Print", "Assert"} THEN stmt[2] ELSE stmt[3]

\* The expressions of the statements of every function, in order.
ModuleExpressions ==
    LET RECURSIVE Expressions(_, _)
        Expressions(f, i) ==
            IF f > Len(ast[2]) THEN <<>>
            ELSE IF i > Len(ast[2][f][2]) THEN Expressions(f + 1, 1)
            ELSE <<StatementExpression(ast[2][f][2][i])>> \o Expressions(f, i + 1)
    IN  Expressions(1, 1)

RECURSIVE ChainOperators(_)
RECURSIVE LinkOperators(_)
\* The comparison operators of an expression, from left to right.
ChainOperators(e) ==
    CASE e[1] = "Literal" -> <<>>
      [] e[1] = "Prefix" -> ChainOperators(e[3])
      [] e[1] = "BinaryOp" -> ChainOperators(e[2]) \o ChainOperators(e[4])
      [] e[1] = "Comparison" -> ChainOperators(e[2]) \o LinkOperators(e[3])

LinkOperators(chains) ==
    IF chains = <<>> THEN <<>>
    ELSE <<Head(chains)[1]>> \o ChainOperators(Head(chains)[2])
             \o LinkOperators(Tail(chains))

ComparisonTokens ==
    [type \in {<<"EqEq">>, <<"BangEq">>, <<"Lt">>, <<"LtEq">>, <<"Gt">>, <<"GtEq">>} |->
        CASE type = <<"EqEq">> -> "Equals"     [] type = <<"BangEq">> -> "NotEquals"
          [] type = <<"Lt">> -> "LessThan"     [] type = <<"LtEq">> -> "LessThanEquals"
          [] type = <<"Gt">> -> "GreaterThan"  [] type = <<"GtEq">> -> "GreaterThanEquals"]

\* The comparison operators of a token sequence, from left to right.
RECURSIVE TokenOperators(_)
TokenOperators(toks) ==
    IF toks = <<>> THEN <<>>
    ELSE (IF Head(toks)[1] \in DOMAIN ComparisonTokens
          THEN <<ComparisonTokens[Head(toks)[1]]>> ELSE <<>>)
             \o TokenOperators(Tail(toks))

\* Every Comparison node of e has a chain that is not empty and, when
\* flat, stands in no operand of another Comparison node.
RECURSIVE WellChained(_, _, _)
WellChained(e, flat, operand) ==
    CASE e[1] = "Literal" -> TRUE
      [] e[1] = "Prefix" -> WellChained(e[3], flat, operand)
      [] e[1] = "BinaryOp" ->
             WellChained(e[2], flat, operand) /\ WellChained(e[4], flat, operand)
      [] e[1] = "Comparison" ->
             /\ e[3] # <<>>
             /\ flat => ~operand
             /\ WellChained(e[2], flat, TRUE)
             /\ \A i \in 1..Len(e[3]) : WellChained(e[3][i][2], flat, TRUE)

Name(x) == <<"Literal", <<"Variable", x>> >>

\* The module of one function that prints e.
PrintModule(e) == <<"Module", << <<"MainFunction", << <<"Print", e>> >> >> >> >>

ChainSource == PrintProgram(<<"a", "<", "b", "<", "=", "c", "<", "d">>)

ChainModule ==
    PrintModule(<<"Comparison", Name("a"),
                  << <<"LessThan", Name("b")>>, <<"LessThanEquals", Name("c")>>,
                     <<"LessThan", Name("d")>> >> >>)

\* C5: a run e0 op1 e1 ... opn en of n >= 1 comparison operators at one
\* nesting level parses to one Comparison node with left operand e0 and
\* the chain (op1, e1), ..., (opn, en) in source order, never to nested
\* nodes; with n = 0 the parser returns the plain operand, so no
\* Comparison node has an empty chain.  `a<b<=c<d` gives a chain of 3.
C5_ComparisonChainIsOneNode ==
    Parsed =>
        /\ \A i \in 1..Len(ModuleExpressions) :
              WellChained(ModuleExpressions[i], NoParentheses, FALSE)
        /\ LET RECURSIVE Operators(_)
               Operators(i) ==
                   IF i > Len(ModuleExpressions) THEN <<>>
                   ELSE ChainOperators(ModuleExpressions[i]) \o Operators(i + 1)
           IN  Operators(1) = TokenOperators(tokens)
        /\ source = ChainSource => ast = ChainModule

C5_ChainOfThree == Parsed /\ source = ChainSource /\ ast = ChainModule

\* The level of the operator of a node in OPERATORS, the first level 1;
\* literals come after every level.
Level(e) ==
    CASE e[1] = "Prefix" /\ e[2] = "Not" -> 1
      [] e[1] = "BinaryOp" /\ e[3] \in {"And", "Or"} -> 2
      [] e[1] = "Comparison" -> 3
      [] e[1] = "BinaryOp" /\ e[3] \in {"Plus", "Minus"} -> 4
      [] e[1] = "BinaryOp" /\ e[3] \in {"Multiply", "Divide"} -> 5
      [] e[1] = "Prefix" /\ e[2] = "Negate" -> 6
      [] e[1] = "Literal" -> 7

Children(e) ==
    CASE e[1] = "Literal" -> {}
      [] e[1] = "Prefix" -> {e[3]}
      [] e[1] = "BinaryOp" -> {e[2], e[4]}
      [] e[1] = "Comparison" -> {e[2]} \cup {e[3][i][2] : i \in 1..Len(e[3])}

\* No operator of e stands below an operator of a later level.
RECURSIVE EarlierLevelsOutside(_)
EarlierLevelsOutside(e) ==
    \A c \in Children(e) : Level(c) >= Level(e) /\ EarlierLevelsOutside(c)

\* No operator of e stands below an operator of an earlier level.
RECURSIVE EarlierLevelsInside(_)
EarlierLevelsInside(e) ==
    \A c \in Children(e) :
        (c[1] # "Literal" => Level(c) <= Level(e)) /\ EarlierLevelsInside(c)

NotAndSource == PrintProgram(<<"!", "a", "&", "&", "b">>)

\* C6, as amended: expression_precedence binds the levels of OPERATORS in
\* the listed order, loosest first: in an expression without parentheses
\* that mixes two levels the operator of the earlier level is the one
\* nearer the root, so `!a && b` parses as
\* Prefix(Not, BinaryOp(a, And, b)).
C6_EarlierLevelBindsLooser ==
    (Parsed /\ NoParentheses) =>
        /\ \A i \in 1..Len(ModuleExpressions) :
              EarlierLevelsOutside(ModuleExpressions[i])
        /\ source = NotAndSource =>
              ast = PrintModule(<<"Prefix", "Not",
                                  <<"BinaryOp", Name("a"), "And", Name("b")>> >>)

C6_NotOverAnd ==
    /\ Parsed /\ source = NotAndSource
    /\ ast = PrintModule(<<"Prefix", "Not",
                           <<"BinaryOp", Name("a"), "And", Name("b")>> >>)

\* C6, as the specification states it: the levels bind tightest first, the
\* operator of the earlier level deeper in the tree, so `!a && b` parses
\* as BinaryOp(Prefix(Not, a), And, b).
C6_EarlierLevelBindsTighter ==
    (Parsed /\ NoParentheses) =>
        /\ \A i \in 1..Len(ModuleExpressions) :
              EarlierLevelsInside(ModuleExpressions[i])
        /\ source = NotAndSource =>
              ast = PrintModule(<<"BinaryOp", <<"Prefix", "Not", Name("a")>>,
                                  "And", Name("b")>>)

\* The source is `$ { print a+b*c; }` for digits a, b and c.
SumOfProduct ==
    /\ Len(source) = 15
    /\ {source[9], source[11], source[13]} \subseteq Digits
    /\ source = PrintProgram(<<source[9], "+", source[11], "*", source[13]>>)

Integer(c) == <<"Literal", <<"Integer", DigitValue(c)>> >>

\* C7: for integer literals a, b and c the program `$ { print a+b*c; }`
\* parses to BinaryOp(a, Plus, BinaryOp(b, Multiply, c)) and the program
\* generated from it prints a+(b*c): `$ { print 1+2*3; }` prints 7.
C7_ProductBeforeSum ==
    SumOfProduct =>
        LET printed == << <<"%d\n", DigitValue(source[9])
                                     + DigitValue(source[11]) * DigitValue(source[13])>> >>
        IN  /\ pc \notin {"panicked", "trapped", "aborted"}
            /\ err[1] \notin {"TokenizerError", "ParsingError", "TypeError"}
            /\ Parsed =>
                  ast = PrintModule(<<"BinaryOp", Integer(source[9]), "Plus",
                                      <<"BinaryOp", Integer(source[11]), "Multiply",
                                        Integer(source[13])>> >>)
            /\ output \in {<<>>, printed}
            /\ pc = "exited" => output = printed

C7_PrintsSeven ==
    /\ pc = "exited" /\ source = PrintProgram(<<"1", "+", "2", "*", "3">>)
    /\ output = << <<"%d\n", 7>> >>

\* C8: on the tokens of the tokenizer Parser::module returns a Module or
\* fails with a ParsingError; it never pops from an empty token stream, so
\* "Unexpected End of Tokens" is never the outcome.
C8_ParserNeverRunsOut ==
    [][pc = "parse" =>
          \/ pc' = "resolve" /\ ast'[1] = "Module"
          \/ pc' = "failed" /\ err'[1] = "ParsingError"]_vars

C8_FailsAtEof == pc = "failed" /\ err[1] = "ParsingError" /\ err[4] = <<"Eof">>

(***************************************************************************)
(* The analyzer's contract.                                                *)
(***************************************************************************)
\* resolve_statement is about to resolve a `set` statement.
AtAssignment ==
    /\ pc = "resolve" /\ function_index <= Len(ast[2])
    /\ statement_index \in 1..Len(Statements)
    /\ Statements[statement_index][1] = "Assignment"

\* C9: resolving `set name = expr;`, expr an expression with a type, fails
\* with a TypeError when name has no binding or the type of expr is not
\* the declared type of the binding; otherwise it yields an Assignment to
\* the identifier the binding has, allocates no identifier for the
\* variable and leaves the binding as it is.
C9_SetNeedsBindingOfSameType ==
    [][AtAssignment =>
          LET name == Statements[statement_index][2]
              variables == last_variables(Analyzer)
              typed == resolve_expression(Analyzer, Statements[statement_index][3])
          IN  IF ~typed.ok
              THEN pc' = "failed" /\ err'[1] = "TypeError"
              ELSE IF name \notin DOMAIN variables
              THEN pc' = "failed" /\ err'[1] = "TypeError" /\ body' = body
              ELSE IF variables[name].var_type # typed.val[1]
              THEN pc' = "failed" /\ err'[1] = "TypeError" /\ body' = body
              ELSE /\ pc' = "resolve"
                   /\ body' = Append(body, <<"Assignment", variables[name].identifier,
                                             typed.val>>)
                   /\ scopes'[Len(scopes')].variables = variables
                   /\ current_identifier' = typed.a.current_identifier
                   /\ function_metadata' = typed.a.function_metadata
      ]_vars

\* `let x = 1; set x = true;` has failed.
C9_SetBooleanToInt ==
    /\ pc = "failed"
    /\ ast = <<"Module", << <<"MainFunction",
                 << <<"Declaration", "x", E_int(1)>>,
                    <<"Assignment", "x", E_bool(TRUE)>> >> >> >> >>
    /\ err = <<"TypeError", "expression is of type Boolean, but variable x is not.">>

\* The locals of the functions resolved and of the one being resolved.
AllLocals ==
    LET RECURSIVE Resolved(_)
        Resolved(i) == IF i > Len(ir) THEN <<>> ELSE ir[i][4] \o Resolved(i + 1)
    IN  Resolved(1) \o (IF statement_index >= 1 THEN function_metadata[2] ELSE <<>>)

\* C10: within one resolve_module the identifier counter only increases
\* and is not reset between functions: no two variables, declared by `let`
\* or made for && and ||, of one function or of two, have the same
\* identifier, and every identifier is in one locals table, once, with
\* one type.
C10_IdentifiersAreUnique ==
    /\ [](/\ \A i, j \in 1..Len(AllLocals) :
                i # j => AllLocals[i][1] # AllLocals[j][1]
          /\ \A i \in 1..Len(AllLocals) : AllLocals[i][1] \in 1..current_identifier
          /\ pc # "failed" => Len(AllLocals) = current_identifier)
    /\ [][current_identifier' >= current_identifier]_vars

\* Two functions resolved, the first with a variable and the local of its
\* `||`, the second with a variable.
C10_LocalsOfTwoFunctions ==
    /\ Len(ir) = 2
    /\ ir[1][4] = << <<2, "Boolean">>, <<1, "Boolean">> >>
    /\ ir[2][4] = << <<3, "Int">> >>

(***************************************************************************)
(* The generated program: `&&` and `||`.                                   *)
(***************************************************************************)
\* The `&&`/`||` operators of a Boolean IR expression, left operand first,
\* then the operator itself, then its right operand: the order in which
\* compile_bool_expression creates their blocks.
RECURSIVE OperatorsOf(_)
OperatorsOf(e) ==
    CASE e[1] = "Not" -> OperatorsOf(e[2])
      [] e[1] = "Operator" -> OperatorsOf(e[3]) \o <<e[4]>> \o OperatorsOf(e[5])
      [] OTHER -> <<>>

StatementOperators(stmt) ==
    CASE stmt[1] = "Assert" -> OperatorsOf(stmt[2])
      [] stmt[1] = "Print" ->
             IF stmt[2][1] = "Boolean" THEN OperatorsOf(stmt[2][2]) ELSE <<>>
      [] stmt[1] = "Assignment" ->
             IF stmt[3][1] = "Boolean" THEN OperatorsOf(stmt[3][2]) ELSE <<>>

FunctionOperators(function) ==
    Cat([i \in 1..Len(function[3]) |-> StatementOperators(function[3][i])])

RECURSIVE Ascending(_)
Ascending(S) ==
    IF S = {} THEN <<>>
    ELSE LET m == CHOOSE x \in S : \A y \in S : x <= y
         IN  <<m>> \o Ascending(S \ {m})

\* The short-circuit blocks of a compiled function, in order of creation.
ShortBlocks(f) ==
    Ascending({b \in 1..Len(f.blocks) : f.blocks[b].name = "short_block"})

\* The conditional branches of a compiled function that enter block b.
BranchesTo(f, b) ==
    {x \in UNION {{<<c, i>> : i \in 1..Len(f.blocks[c].instrs)} :
                  c \in 1..Len(f.blocks)} :
        /\ f.blocks[x[1]].instrs[x[2]][1] = "br"
        /\ b \in {f.blocks[x[1]].instrs[x[2]][3], f.blocks[x[1]].instrs[x[2]][4]}}

\* Operator op of the source and the short-circuit block made for it: the
\* block stores the absorbing constant and goes on to the continuation, and
\* the one branch that enters it takes it when the left operand is false
\* for `&&` and when it is true for `||`, and the right block otherwise.
ShortCircuitOf(f, op, short) ==
    LET instrs == f.blocks[short].instrs
    IN  /\ Len(instrs) = 2
        /\ instrs[1][1] = "store"
        /\ instrs[1][3] = <<"const", IF op = "And" THEN 0 ELSE 1>>
        /\ instrs[2][1] = "jump"
        /\ f.blocks[instrs[2][2]].name = "continue_block"
        /\ \E x \in BranchesTo(f, short) :
              /\ BranchesTo(f, short) = {x}
              /\ LET br == f.blocks[x[1]].instrs[x[2]]
                 IN  IF op = "And"
                     THEN br[4] = short /\ f.blocks[br[3]].name = "right_block"
                     ELSE br[3] = short /\ f.blocks[br[4]].name = "right_block"

ShortCircuitShape ==
    \A k \in 1..Len(module.functions) :
        LET f == module.functions[k]
            ops == FunctionOperators(ir[k])
            shorts == ShortBlocks(f)
        IN  /\ Len(shorts) = Len(ops)
            /\ \A j \in 1..Len(ops) : ShortCircuitOf(f, ops[j], shorts[j])

\* Every branch goes to a block later in the function's layout: no block is
\* entered again once control has left it.
LayoutIndex(f, b) == CHOOSE i \in 1..Len(f.layout) : f.layout[i] = b

ForwardOnly ==
    \A k \in 1..Len(module.functions) :
        LET f == module.functions[k]
        IN  \A b \in 1..Len(f.blocks) : \A i \in 1..Len(f.blocks[b].instrs) :
                LET instr == f.blocks[b].instrs[i]
                    targets == CASE instr[1] = "jump" -> {instr[2]}
                                 [] instr[1] = "br" -> {instr[3], instr[4]}
                                 [] OTHER -> {}
                IN  \A t \in targets : LayoutIndex(f, t) > LayoutIndex(f, b)

BlockName(b) == module.functions[frame.function].blocks[b].name

\* The running program is at the conditional branch of an `&&` or `||`.
AtOperatorBranch ==
    /\ Running /\ Instr[1] = "br"
    /\ {BlockName(Instr[3]), BlockName(Instr[4])} = {"right_block", "short_block"}

ShortTarget == IF BlockName(Instr[3]) = "short_block" THEN Instr[3] ELSE Instr[4]

RightTarget == IF BlockName(Instr[3]) = "short_block" THEN Instr[4] ELSE Instr[3]

\* The constant the short-circuit block stores.
Absorbing ==
    module.functions[frame.function].blocks[ShortTarget].instrs[1][3][2]

\* A right operand that traps if it is evaluated, behind a left operand that
\* decides the result.
FalseAndTrap == PrintProgram(W_false \o <<"&", "&", "1", "/", "0", "=", "=", "0">>)

TrueOrTrap == PrintProgram(W_true \o <<"|", "|", "1", "/", "0", "=", "=", "0">>)

\* C11: in the code generated for `L && R` and `L || R`, a run on which L has
\* the absorbing value (false for `&&`, true for `||`) goes from the branch
\* to the short-circuit block, which stores that constant into the reserved
\* slot and goes on to the continuation without any instruction of R; no
\* block is entered twice, so R is not evaluated later either, and a trap in
\* R is never seen behind a deciding L.
C11_ShortCircuitSkipsRight ==
    /\ [](ShortCircuitShape /\ ForwardOnly)
    /\ [](source \in {FalseAndTrap, TrueOrTrap} => pc # "trapped")
    /\ [][AtOperatorBranch =>
            frame'.block = IF Value(frame.regs, Instr[2]) = Absorbing
                           THEN ShortTarget ELSE RightTarget]_vars

\* `false && 1/0 == 0` has run to its return and printed false.
C11_DivisionByZeroSkipped ==
    /\ source = FalseAndTrap
    /\ pc = "exited"
    /\ output = << <<"Bool(%d)\n", 0>> >>

\* The value of a Boolean expression of the source over p and q, as logic
\* has it; env gives the variables' values.
RECURSIVE EvalBool(_, _)
EvalBool(e, env) ==
    CASE e[1] = "Literal" ->
             IF e[2][1] = "Boolean" THEN e[2][2] ELSE env[e[2][2]]
      [] e[1] = "Prefix" -> ~EvalBool(e[3], env)
      [] e[1] = "BinaryOp" ->
             IF e[3] = "And" THEN EvalBool(e[2], env) /\ EvalBool(e[4], env)
             ELSE EvalBool(e[2], env) \/ EvalBool(e[4], env)

Bit(b) == IF b THEN 1 ELSE 0

\* What a function of Boolean statements prints, and whether it aborts:
\* the statements in order, up to the first assert that fails.
RECURSIVE Interpret(_, _, _)
Interpret(stmts, env, out) ==
    IF stmts = <<>> THEN [out |-> out, aborted |-> FALSE]
    ELSE LET stmt == Head(stmts)
         IN  CASE stmt[1] \in {"Declaration", "Assignment"} ->
                      Interpret(Tail(stmts),
                                [n \in DOMAIN env \cup {stmt[2]} |->
                                    IF n = stmt[2] THEN EvalBool(stmt[3], env)
                                    ELSE env[n]],
                                out)
               [] stmt[1] = "Print" ->
                      Interpret(Tail(stmts), env,
                                Append(out, <<"Bool(%d)\n",
                                              Bit(EvalBool(stmt[2], env))>>))
               [] stmt[1] = "Assert" ->
                      IF EvalBool(stmt[2], env) THEN Interpret(Tail(stmts), env, out)
                      ELSE [out |-> Append(out,
                                       <<IF stmt[3][1] = "Some"
                                         THEN "Assert failed: " \o stmt[3][2] \o "\n"
                                         ELSE "Assert failed\n">>),
                            aborted |-> TRUE]

\* The module is one of the programs over p and q.
BooleanProgram == ast # <<>> /\ Len(ast[2]) = 1 /\ Len(ast[2][1][2]) = 4

Expected == Interpret(ast[2][1][2], [n \in {} |-> FALSE], <<>>)

\* The running program is at the load that opens the continuation block of
\* an `&&` or `||`: a short-circuit block jumps to the block it is in.
ShortBefore(f, c) ==
    {b \in 1..Len(f.blocks) :
        f.blocks[b].name = "short_block" /\ f.blocks[b].instrs[2] = <<"jump", c>>}

AtOperatorLoad ==
    /\ Running /\ Instr[1] = "load" /\ frame.ip = 1
    /\ ShortBefore(module.functions[frame.function], frame.block) # {}

\* The value the operator at AtOperatorLoad has as logic has it, from the
\* values the running program computed for its operands: the left one is the
\* condition of the operator's branch, the right one what the block that
\* ends the right operand stores.
OperatorValue ==
    LET f == module.functions[frame.function]
        c == frame.block
        short == CHOOSE b \in ShortBefore(f, c) : TRUE
        x == CHOOSE y \in BranchesTo(f, short) : TRUE
        left == Value(frame.regs, f.blocks[x[1]].instrs[x[2]][2])
        end == CHOOSE b \in 1..Len(f.blocks) :
                   /\ b # short /\ f.blocks[b].instrs # <<>>
                   /\ f.blocks[b].instrs[Len(f.blocks[b].instrs)] = <<"jump", c>>
        stored == f.blocks[end].instrs[Len(f.blocks[end].instrs) - 1][3]
    IN  IF f.blocks[short].instrs[1][3][2] = 0
        THEN (IF left = 0 THEN 0 ELSE Value(frame.regs, stored))
        ELSE (IF left = 1 THEN 1 ELSE Value(frame.regs, stored))

\* C12: the value loaded in the continuation block of every `&&` and `||`,
\* however nested, is the logical AND/OR of the values of its operands, no
\* slot being overwritten between its store and its load; so a program over
\* Boolean variables prints the values logic gives its expressions.
C12_OperatorsLoadTheirOwnResult ==
    /\ [](pc = "exited" /\ BooleanProgram => output = Expected.out)
    /\ [][AtOperatorLoad => frame'.regs[Instr[2]] = OperatorValue]_vars

\* `q || (p && p)` with p true and q false has printed true, then p.
C12_NestedOperatorsPrinted ==
    /\ ast = Program(TRUE, FALSE,
                     <<"Print", <<"BinaryOp", E_name("q"), "Or",
                                  <<"BinaryOp", E_name("p"), "And",
                                    E_name("p")>> >> >>)
    /\ pc = "exited"
    /\ output = << <<"Bool(%d)\n", 1>>, <<"Bool(%d)\n", 1>> >>

(***************************************************************************)
(* The generated program: assert.                                          *)
(***************************************************************************)
\* C13: an assert whose operand is true prints nothing and the statements
\* after it run; an assert whose operand is false prints its diagnostic,
\* with the message when there is one, and the program ends in abort with
\* no later statement run.  So a program that has ended has printed what
\* its statements print up to the first failing assert, that diagnostic
\* last, and it ended in abort exactly when an assert failed.
C13_AssertFallsThroughOrAborts ==
    /\ [](pc \in {"exited", "aborted"} /\ BooleanProgram =>
            /\ (pc = "aborted") = Expected.aborted
            /\ output = Expected.out)
    /\ [][pc = "aborted" => pc' = "aborted" /\ output' = output]_vars

(***************************************************************************)
(* The generated program: division.                                        *)
(***************************************************************************)
\* r is a divided by b truncated toward zero: its magnitude is
\* floor(|a| / |b|) and its sign that of a * b.  No 32-bit r is the quotient
\* of IntMin and -1; the other quotients of IntMin are taken one |b| away
\* from it, where magnitudes fit.
RECURSIVE TruncatedQuotient(_, _, _)
TruncatedQuotient(a, b, r) ==
    IF a = IntMin /\ b = -1 THEN FALSE
    ELSE IF a = IntMin /\ b = 1 THEN r = IntMin
    ELSE IF b = IntMin THEN r = (IF a = IntMin THEN 1 ELSE 0)
    ELSE IF a = IntMin
    THEN IF b > 0 THEN r < IntMax /\ TruncatedQuotient(a + b, b, r + 1)
         ELSE r > IntMin /\ TruncatedQuotient(a - b, b, r - 1)
    ELSE /\ r # IntMin
         /\ Abs(r) = Abs(a) \div Abs(b)
         /\ r = 0 \/ (r > 0) = ((a > 0) = (b > 0))

SevenByTwo == PrintProgram(<<"7", "/", "2">>)

MinByMinusOne ==
    PrintProgram(<<"(", "-">> \o W_max \o <<"-", "1", ")", "/", "-", "1">>)

\* C14: every division the generated program executes with a nonzero
\* divisor yields the quotient truncated toward zero, magnitude
\* floor(|a| / |b|) with the sign of a * b, and the program goes on;
\* `$ { print 7/2; }` prints 3.
C14_DivisionTruncatesTowardZero ==
    /\ [](source = SevenByTwo /\ pc = "exited" => output = << <<"%d\n", 3>> >>)
    /\ [][Running /\ Instr[1] = "sdiv" /\ Value(frame.regs, Instr[4]) # 0 =>
            /\ pc' = "run"
            /\ TruncatedQuotient(Value(frame.regs, Instr[3]),
                                 Value(frame.regs, Instr[4]),
                                 frame'.regs[Instr[2]])]_vars


(***************************************************************************)
(* Declarations and scopes.                                                *)
(***************************************************************************)
\* The variable names an AST expression mentions.
RECURSIVE NamesIn(_)
NamesIn(e) ==
    CASE e[1] = "Literal" -> IF e[2][1] = "Variable" THEN {e[2][2]} ELSE {}
      [] e[1] = "Prefix" -> NamesIn(e[3])
      [] e[1] = "BinaryOp" -> NamesIn(e[2]) \cup NamesIn(e[4])
      [] e[1] = "Comparison" ->
            NamesIn(e[2]) \cup UNION {NamesIn(e[3][i][2]) : i \in 1..Len(e[3])}

\* The identifiers an IR expression loads with Var.
RECURSIVE VarsIn(_)
VarsIn(e) ==
    CASE e[1] = "Literal" -> {}
      [] e[1] = "Var" -> {e[2]}
      [] e[1] \in {"Negate", "Not"} -> VarsIn(e[2])
      [] e[1] = "BinaryOperation" -> VarsIn(e[2]) \cup VarsIn(e[4])
      [] e[1] = "Operator" -> VarsIn(e[3]) \cup VarsIn(e[5])
      [] e[1] = "Comparison" ->
            VarsIn(e[2][2]) \cup UNION {VarsIn(e[2][3][i][2]) : i \in 1..Len(e[2][3])}

\* resolve_statement is about to resolve a statement.
AtStatement ==
    /\ pc = "resolve" /\ function_index <= Len(ast[2])
    /\ statement_index \in 1..Len(Statements)

\* resolve_statement is about to resolve a `let` statement.
AtDeclaration == AtStatement /\ Statements[statement_index][1] = "Declaration"

\* The expression of an IR statement.
Resolved(stmt) == IF stmt[1] = "Assert" THEN stmt[2] ELSE stmt[Len(stmt)][2]

\* C15: resolving `let name = expr;` always allocates a fresh identifier;
\* when expr resolves it appends (identifier, type of expr) to the locals
\* of the function, whose earlier entries stay, and binds name to the
\* identifier in the last scope, whether or not name was bound, leaving the
\* other names alone.  The names in expr resolve to the bindings before the
\* statement, and there is a TypeError when name is in expr and was not
\* bound.  Bindings change in no other statement, and the names of every
\* statement resolve to the bindings of the moment.
C15_LetBindsFreshIdentifier ==
    /\ [][AtDeclaration =>
            LET name == Statements[statement_index][2]
                expr == Statements[statement_index][3]
                variables == last_variables(Analyzer)
                identifier == current_identifier + 1
                locals == function_metadata[2]
            IN  /\ current_identifier' >= identifier
                /\ name \in NamesIn(expr) /\ name \notin DOMAIN variables
                      => pc' = "failed" /\ err'[1] = "TypeError"
                /\ IF pc' = "failed"
                   THEN /\ err'[1] = "TypeError" /\ body' = body
                        /\ scopes' = scopes
                   ELSE LET typed == body'[Len(body')][3]
                            variables2 == scopes'[Len(scopes')].variables
                            locals2 == function_metadata'[2]
                        IN  /\ body' = Append(body, <<"Assignment", identifier, typed>>)
                            /\ Len(locals2) > Len(locals)
                            /\ SubSeq(locals2, 1, Len(locals)) = locals
                            /\ locals2[Len(locals2)] = <<identifier, typed[1]>>
                            /\ \A i \in 1..Len(locals) : locals[i][1] # identifier
                            /\ Len(scopes') = Len(scopes)
                            /\ DOMAIN variables2 = DOMAIN variables \cup {name}
                            /\ variables2[name] =
                                  [identifier |-> identifier, var_type |-> typed[1]]
                            /\ \A v \in DOMAIN variables \ {name} :
                                  variables2[v] = variables[v]
                            /\ NamesIn(expr) \subseteq DOMAIN variables
                            /\ VarsIn(typed[2]) =
                                  {variables[v].identifier : v \in NamesIn(expr)}
         ]_vars
    /\ [][AtStatement /\ ~AtDeclaration => scopes' = scopes]_vars
    /\ [][AtStatement /\ pc' = "resolve" =>
            VarsIn(Resolved(body'[Len(body')])) =
               {last_variables(Analyzer)[v].identifier :
                   v \in NamesIn(StatementExpression(Statements[statement_index]))}
         ]_vars

\* `let x = 1; let x = x == 1;` is resolved: x is the Boolean identifier 2,
\* whose value is computed from identifier 1, and both are locals.
C15_ShadowedByOtherType ==
    /\ pc = "resolve" /\ Len(body) = 2
    /\ function_metadata[2] = << <<1, "Int">>, <<2, "Boolean">> >>
    /\ last_variables(Analyzer)["x"] = [identifier |-> 2, var_type |-> "Boolean"]
    /\ VarsIn(body[2][3][2]) = {1}


\* resolve_top_level_statement is about to return the function it resolved.
AtFunctionEnd ==
    /\ pc = "resolve" /\ function_index <= Len(ast[2])
    /\ statement_index = Len(Statements) + 1

\* C16: the scope stack is strictly nested: entering a function pushes one
\* frame and leaving it pops that frame, so that the stack is as deep
\* between two functions as before the first, and empty once
\* resolve_module has returned.
C16_ScopeStackIsNested ==
    /\ [][pc = "resolve" /\ statement_index = 0 /\ statement_index' = 1
             => Len(scopes') = Len(scopes) + 1]_vars
    /\ [][AtFunctionEnd => Len(scopes') = Len(scopes) - 1]_vars
    /\ [](pc = "resolve" /\ statement_index = 0 => scopes = <<>>)
    /\ [](pc = "codegen" => scopes = <<>>)


\* The names the function being resolved has declared so far.
DeclaredHere ==
    {Statements[j][2] : j \in {i \in 1..statement_index - 1 :
                                  Statements[i][1] = "Declaration"}}

\* The names a statement needs a binding for.
NamesUsed(stmt) ==
    NamesIn(StatementExpression(stmt))
       \cup (IF stmt[1] = "Assignment" THEN {stmt[2]} ELSE {})

\* C17: names and locals do not cross function boundaries.  The names
\* that resolve in a function are the ones its own earlier `let` statements
\* declared, so a statement that reads or sets a name declared only in
\* another function fails with a TypeError; a function starts with an
\* empty locals table, the entries a statement adds to it carry identifiers
\* allocated by that statement, and the table goes to that function's IR.
C17_NamesAndLocalsStayInFunction ==
    /\ [](pc \in {"resolve", "failed"} /\ function_index <= Len(ast[2])
            /\ statement_index >= 1
             => DOMAIN last_variables(Analyzer) = DeclaredHere)
    /\ [][AtStatement /\ ~(NamesUsed(Statements[statement_index]) \subseteq DeclaredHere)
             => pc' = "failed" /\ err'[1] = "TypeError"]_vars
    /\ [][pc = "resolve" /\ statement_index = 0 /\ statement_index' = 1
             => function_metadata' = <<"Some", <<>> >>]_vars
    /\ [][AtStatement =>
            LET locals == function_metadata[2]
                locals2 == function_metadata'[2]
            IN  /\ SubSeq(locals2, 1, Len(locals)) = locals
                /\ \A i \in Len(locals) + 1..Len(locals2) :
                      /\ locals2[i][1] > current_identifier
                      /\ locals2[i][1] <= current_identifier'
         ]_vars
    /\ [][AtFunctionEnd =>
            /\ Len(ir') = function_index
            /\ ir'[function_index][4] = function_metadata[2]]_vars

\* `$ { let x = 1; } $ { print x + 1; }` has failed in its second function,
\* the first resolved with x as its one local.
C17_NameOfFirstFunctionUnknown ==
    /\ pc = "failed"
    /\ ast = <<"Module",
               << <<"MainFunction", << <<"Declaration", "x", E_int(1)>> >> >>,
                  <<"MainFunction",
                    << <<"Print", <<"BinaryOp", E_x, "Plus", E_int(1)>> >> >> >> >> >>
    /\ err = <<"TypeError", "variable x not found">>
    /\ Len(ir) = 1 /\ ir[1][4] = << <<1, "Int">> >>
    /\ function_metadata = <<"Some", <<>> >>


(***************************************************************************)
(* build (lib.rs): the stages and their errors.                            *)
(***************************************************************************)
\* The stages of build in the order of its body; code generation is one
\* stage from compile_libc_definitions to the last function.
StageNumber(p) ==
    CASE p = "read" -> 1
      [] p = "tokenize" -> 2
      [] p = "parse" -> 3
      [] p = "resolve" -> 4
      [] p \in {"codegen", "compile"} -> 5
      [] p = "output" -> 6
      [] p = "assemble" -> 7
      [] p = "link" -> 8
      [] p = "built" -> 9

BuildStages ==
    {"read", "tokenize", "parse", "resolve", "codegen", "compile", "output",
     "assemble", "link"}

\* The kind of error a stage can fail with.
StageErrors(p) ==
    CASE p \in {"read", "assemble", "link"} -> {"anyhow"}
      [] p = "tokenize" -> {"TokenizerError"}
      [] p = "parse" -> {"ParsingError"}
      [] p = "resolve" -> {"TypeError"}
      [] OTHER -> {}

\* C18: build runs its stages strictly in the order read, tokenize,
\* parse, resolve, generate, write the artifact, assemble, link: a step of a
\* stage stays in the stage or moves to the next one with no error, or
\* fails, and then build returns the error of that stage; nothing runs after
\* a failure, and after a tokenizer, parser or resolver error no module has
\* been generated or written.
C18_StagesInOrderFirstErrorReturned ==
    /\ [][(pc \in BuildStages) =>
            \/ /\ pc' \in BuildStages \cup {"built"}
               /\ StageNumber(pc') \in {StageNumber(pc), StageNumber(pc) + 1}
               /\ err' = <<"none">>
            \/ /\ pc' = "failed"
               /\ err'[1] \in StageErrors(pc)
         ]_vars
    /\ [][pc = "failed" => pc' = "failed" /\ err' = err /\ module' = module]_vars
    /\ [](pc = "failed" /\ err[1] \in {"TokenizerError", "ParsingError", "TypeError"}
            => module = Module_new)


(***************************************************************************)
(* Parsing errors.                                                         *)
(***************************************************************************)
LiteralTokens == {"Integer", "True", "False", "Identifier"}

BinaryTokens ==
    {"AndAnd", "OrOr", "EqEq", "BangEq", "Lt", "LtEq", "Gt", "GtEq",
     "Plus", "Minus", "Star", "Slash"}

\* The grammar of parser.rs as a recogniser that reads one token at a time:
\* where it is (mode), the statement it is in (ctx) and the parentheses
\* open (depth).  Allowed(m, t) is the place after token type t, or
\* <<"reject">> when the grammar does not allow t there.
Place(mode, ctx, depth) == <<mode, ctx, depth>>

Allowed(m, t) ==
    LET mode == m[1]
        ctx == m[2]
        depth == m[3]
        operand == IF t = "Minus" THEN Place("operand", ctx, depth)
                   ELSE IF t \in LiteralTokens THEN Place("after", ctx, depth)
                   ELSE IF t = "ParenOpen" THEN Place("expression", ctx, depth + 1)
                   ELSE <<"reject">>
        only(type, next) == IF t = type THEN next ELSE <<"reject">>
    IN  CASE mode = "top" ->
                IF t = "Dollar" THEN Place("open", ctx, 0)
                ELSE only("Eof", Place("end", ctx, 0))
          [] mode = "open" -> only("CurlyOpen", Place("body", ctx, 0))
          [] mode = "body" ->
                IF t = "CurlyClose" THEN Place("top", ctx, 0)
                ELSE IF t \in {"Print", "Assert"} THEN Place("expression", t, 0)
                ELSE IF t \in {"Let", "Set"} THEN Place("name", t, 0)
                ELSE <<"reject">>
          [] mode = "name" -> only("Identifier", Place("eq", ctx, 0))
          [] mode = "eq" -> only("Eq", Place("expression", ctx, 0))
          [] mode = "expression" ->
                IF t = "Bang" THEN Place("expression", ctx, depth) ELSE operand
          [] mode = "operand" -> operand
          [] mode = "after" ->
                IF t \in BinaryTokens THEN Place("operand", ctx, depth)
                ELSE IF depth > 0 THEN only("ParenClose", Place("after", ctx, depth - 1))
                ELSE IF t = "Comma" /\ ctx = "Assert" THEN Place("message", ctx, 0)
                ELSE only("SemiColon", Place("body", ctx, 0))
          [] mode = "message" -> only("String", Place("semi", ctx, 0))
          [] mode = "semi" -> only("SemiColon", Place("body", ctx, 0))
          [] mode = "end" -> <<"reject">>

\* The index of the first token of toks, from i on at place m, that the
\* grammar does not allow; 0 when there is none.
RECURSIVE FirstRejected(_, _, _)
FirstRejected(toks, i, m) ==
    IF i > Len(toks) THEN 0
    ELSE LET next == Allowed(m, toks[i][1][1])
         IN  IF next = <<"reject">> THEN i ELSE FirstRejected(toks, i + 1, next)

Mismatched == FirstRejected(tokens, 1, Place("top", "none", 0))

\* C19: a ParsingError reports the token that mismatched: got, line and
\* char are those of the first token of the stream that the grammar does
\* not allow where it stands, also when that token stands where a function
\* must start with `$`.
C19_ErrorAtFirstMismatch ==
    pc = "failed" /\ err[1] = "ParsingError" =>
       /\ Mismatched \in 1..Len(tokens)
       /\ err[4] = tokens[Mismatched][1]
       /\ err[2] = tokens[Mismatched][2]
       /\ err[3] = tokens[Mismatched][3]


NotNotSource == PrintProgram(<<"!", "!">> \o W_true)

AndNotSource == PrintProgram(<<"a", "&", "&", "!", "b">>)

\* `!!true` is parsed as Prefix(Not, Prefix(Not, true)).
NotNotParsed ==
    source = NotNotSource /\ pc \notin {"read", "tokenize", "parse"} =>
       ast = PrintModule(<<"Prefix", "Not", <<"Prefix", "Not", E_bool(TRUE)>> >>)

\* C20: every operand with a `!` prefix parses: no ParsingError rejects a
\* `!` where an operand is expected, `!!true` yields
\* Prefix(Not, Prefix(Not, true)) and `a && !b` yields
\* BinaryOp(a, And, Prefix(Not, b)).
C20_NotPrefixOnAnyOperand ==
    /\ NotNotParsed
    /\ source = AndNotSource /\ pc \notin {"read", "tokenize", "parse"} =>
          ast = PrintModule(<<"BinaryOp", Name("a"), "And",
                              <<"Prefix", "Not", Name("b")>> >>)
    /\ pc = "failed" /\ err[1] = "ParsingError" /\ err[4] = <<"Bang">> =>
          err[5] # "Literal"


(***************************************************************************)
(* Associativity.                                                          *)
(***************************************************************************)
\* The Binary level and the AST operator of a token type; level 0 for the
\* token types that are no binary operator.
BinaryLevel(type) ==
    CASE type \in {<<"AndAnd">>, <<"OrOr">>} -> 1
      [] type \in {<<"Plus">>, <<"Minus">>} -> 2
      [] type \in {<<"Star">>, <<"Slash">>} -> 3
      [] OTHER -> 0

BinaryOpOf(type) ==
    CASE type = <<"AndAnd">> -> "And"    [] type = <<"OrOr">> -> "Or"
      [] type = <<"Plus">> -> "Plus"     [] type = <<"Minus">> -> "Minus"
      [] type = <<"Star">> -> "Multiply" [] type = <<"Slash">> -> "Divide"

\* The literal a token stands for.
LiteralOf(type) ==
    CASE type[1] = "Integer" -> E_int(type[2])
      [] type[1] = "True" -> E_bool(TRUE)
      [] type[1] = "False" -> E_bool(FALSE)
      [] type[1] = "Identifier" -> Name(type[2])

\* The source is `$ { print a op1 b op2 c; }`, a, b, c literals and op1,
\* op2 binary operators of one level.
TwoOperatorsOfOneLevel ==
    /\ Tokenized /\ Len(tokens) = 11
    /\ SubSeq(Types(tokens), 1, 3) = << <<"Dollar">>, <<"CurlyOpen">>, <<"Print">> >>
    /\ SubSeq(Types(tokens), 9, 11) = << <<"SemiColon">>, <<"CurlyClose">>, <<"Eof">> >>
    /\ \A k \in {4, 6, 8} : tokens[k][1][1] \in LiteralTokens
    /\ BinaryLevel(tokens[5][1]) # 0
    /\ BinaryLevel(tokens[5][1]) = BinaryLevel(tokens[7][1])

\* No BinaryOp of e has a BinaryOp of its own level as its right operand.
RECURSIVE GroupsToTheLeft(_)
GroupsToTheLeft(e) ==
    /\ e[1] = "BinaryOp" /\ e[4][1] = "BinaryOp" => Level(e[4]) # Level(e)
    /\ \A c \in Children(e) : GroupsToTheLeft(c)

SevenTwoOne == PrintProgram(<<"7", "-", "2", "-", "1">>)

\* C21: the binary operators of one level are left-associative:
\* `a op1 b op2 c` with op1 and op2 of one level, both of `&&` `||`, of
\* `+` `-` or of `*` `/`, parses, and to
\* BinaryOp(BinaryOp(a, op1, b), op2, c); without parentheses no BinaryOp
\* has a BinaryOp of its own level on its right; and `7-2-1` prints 4.
C21_SameLevelGroupsLeft ==
    /\ TwoOperatorsOfOneLevel /\ pc # "parse" =>
          ast = PrintModule(<<"BinaryOp",
                              <<"BinaryOp", LiteralOf(tokens[4][1]),
                                BinaryOpOf(tokens[5][1]), LiteralOf(tokens[6][1])>>,
                              BinaryOpOf(tokens[7][1]), LiteralOf(tokens[8][1])>>)
    /\ Parsed /\ NoParentheses =>
          \A i \in 1..Len(ModuleExpressions) : GroupsToTheLeft(ModuleExpressions[i])
    /\ source = SevenTwoOne /\ pc = "exited" => output = << <<"%d\n", 4>> >>

\* `$ { print 7-2-1; }` has run and printed 4.
C21_SevenTwoOnePrintsFour ==
    /\ pc = "exited" /\ source = SevenTwoOne
    /\ ast = PrintModule(<<"BinaryOp", <<"BinaryOp", E_int(7), "Minus", E_int(2)>>,
                           "Minus", E_int(1)>>)
    /\ output = << <<"%d\n", 4>> >>


(***************************************************************************)
(* Typing.                                                                 *)
(***************************************************************************)
Typed(type, temps) == [type |-> type, temps |-> temps]

\* The type of AST expression e where the names have the types of env,
\* "Error" when it has none, and the number of `&&` and `||` that have
\* their type among the operands looked at up to the first one without.
RECURSIVE Typing(_, _)
RECURSIVE TypingLinks(_, _, _)
Typing(e, env) ==
    CASE e[1] = "Literal" ->
            IF e[2][1] = "Integer" THEN Typed("Int", 0)
            ELSE IF e[2][1] = "Boolean" THEN Typed("Boolean", 0)
            ELSE IF e[2][2] \in DOMAIN env THEN Typed(env[e[2][2]].var_type, 0)
            ELSE Typed("Error", 0)
      [] e[1] = "Prefix" ->
            LET x == Typing(e[3], env)
                wanted == IF e[2] = "Negate" THEN "Int" ELSE "Boolean"
            IN  IF x.type = wanted THEN x ELSE Typed("Error", x.temps)
      [] e[1] = "BinaryOp" ->
            LET l == Typing(e[2], env)
                r == Typing(e[4], env)
            IN  IF l.type = "Error" THEN l
                ELSE IF r.type = "Error" THEN Typed("Error", l.temps + r.temps)
                ELSE IF l.type = "Int" /\ r.type = "Int"
                        /\ e[3] \in {"Plus", "Minus", "Multiply", "Divide"}
                THEN Typed("Int", l.temps + r.temps)
                ELSE IF l.type = "Boolean" /\ r.type = "Boolean"
                        /\ e[3] \in {"And", "Or"}
                THEN Typed("Boolean", l.temps + r.temps + 1)
                ELSE Typed("Error", l.temps + r.temps)
      [] e[1] = "Comparison" ->
            LET l == Typing(e[2], env)
            IN  IF l.type # "Int" THEN Typed("Error", l.temps)
                ELSE TypingLinks(e[3], env, l.temps)

TypingLinks(chains, env, temps) ==
    IF chains = <<>> THEN Typed("Boolean", temps)
    ELSE LET x == Typing(Head(chains)[2], env)
         IN  IF x.type # "Int" THEN Typed("Error", temps + x.temps)
             ELSE TypingLinks(Tail(chains), env, temps + x.temps)

OneAndTrue == PrintProgram(<<"1", "&", "&">> \o W_true)

\* C22: an expression resolves exactly when it is well typed: unary `-`
\* and `+ - * /` take Int operands and give Int, `!` and `&& ||` take
\* Boolean operands and give Boolean, a comparison chain takes Int
\* operands and gives Boolean, and every other pairing is a TypeError.
\* The identifiers a statement allocates are one for a `let` and one for
\* each `&&` and `||` that has a type, none for one that fails.
C22_ResolvesExactlyWellTyped ==
    [][AtStatement =>
          LET stmt == Statements[statement_index]
              t == Typing(StatementExpression(stmt), last_variables(Analyzer))
              declared == IF stmt[1] = "Declaration" THEN 1 ELSE 0
          IN  /\ current_identifier' = current_identifier + declared + t.temps
              /\ t.type = "Error" => pc' = "failed" /\ err'[1] = "TypeError"
              /\ t.type # "Error" /\ stmt[1] \in {"Print", "Declaration"} =>
                    /\ pc' = "resolve"
                    /\ body'[Len(body')][Len(stmt)][1] = t.type
              /\ t.type # "Error" /\ stmt[1] = "Assert" =>
                    (pc' = "resolve") = (t.type = "Boolean")
              /\ t.type # "Error" /\ stmt[1] = "Assignment" /\ pc' = "resolve" =>
                    body'[Len(body')][3][1] = t.type
    ]_vars

\* `$ { print (true && false) && 1; }` has failed with one identifier
\* allocated, for the inner `&&`.
C22_OuterAndFails ==
    /\ pc = "failed" /\ err = <<"TypeError", "Expected bool">>
    /\ ast = PrintModule(<<"BinaryOp",
                           <<"BinaryOp", E_bool(TRUE), "And", E_bool(FALSE)>>,
                           "And", E_int(1)>>)
    /\ current_identifier = 1
    /\ function_metadata = <<"Some", << <<1, "Boolean">> >> >>


(***************************************************************************)
(* The generated program: comparison chains.                               *)
(***************************************************************************)
\* The program is one function that prints one comparison chain.
ChainProgram ==
    /\ Len(ir) = 1 /\ Len(module.functions) = 1
    /\ Len(ir[1][3]) = 1 /\ ir[1][3][1][1] = "Print"
    /\ ir[1][3][1][2][1] = "Boolean" /\ ir[1][3][1][2][2][1] = "Comparison"

\* Its operands e0 .. en and its operators op1 .. opn.
ChainOperands ==
    LET c == ir[1][3][1][2][2][2]
    IN  <<c[2]>> \o [i \in 1..Len(c[3]) |-> c[3][i][2]]

ChainOps == [i \in 1..Len(ir[1][3][1][2][2][2][3]) |-> ir[1][3][1][2][2][2][3][i][1]]

\* The instructions an Int expression is evaluated with: one for each
\* operator and each variable read.
RECURSIVE Evaluations(_)
Evaluations(e) ==
    CASE e[1] = "Literal" -> 0
      [] e[1] = "Var" -> 1
      [] e[1] = "Negate" -> 1 + Evaluations(e[2])
      [] e[1] = "BinaryOperation" -> 1 + Evaluations(e[2]) + Evaluations(e[4])

\* The value of an Int expression without variables, and whether sdiv
\* defines every quotient in it.
RECURSIVE IntValue(_)
IntValue(e) ==
    CASE e[1] = "Literal" -> e[2]
      [] e[1] = "Negate" -> 0 - IntValue(e[2])
      [] e[1] = "BinaryOperation" ->
            LET a == IntValue(e[2])
                b == IntValue(e[4])
                magnitude == (IF a < 0 THEN -a ELSE a) \div (IF b < 0 THEN -b ELSE b)
            IN  CASE e[3] = "Plus" -> a + b
                  [] e[3] = "Minus" -> a - b
                  [] e[3] = "Multiply" -> a * b
                  [] e[3] = "Divide" ->
                        IF b = 0 THEN 0
                        ELSE IF (a < 0) = (b < 0) THEN magnitude ELSE -magnitude

RECURSIVE DividesByZero(_)
DividesByZero(e) ==
    CASE e[1] \in {"Literal", "Var"} -> FALSE
      [] e[1] = "Negate" -> DividesByZero(e[2])
      [] e[1] = "BinaryOperation" ->
            \/ DividesByZero(e[2]) \/ DividesByZero(e[4])
            \/ (e[3] = "Divide" /\ IntValue(e[4]) = 0)

\* Link i of the chain, as a signed comparison of the values.
LinkHolds(i) ==
    LET a == IntValue(ChainOperands[i])
        b == IntValue(ChainOperands[i + 1])
    IN  CASE ChainOps[i] = "Equal" -> a = b
          [] ChainOps[i] = "NotEquals" -> a # b
          [] ChainOps[i] = "LessThan" -> a < b
          [] ChainOps[i] = "LessThanEquals" -> a <= b
          [] ChainOps[i] = "GreaterThan" -> a > b
          [] ChainOps[i] = "GreaterThanEquals" -> a >= b

ChainInstrs == module.functions[1].blocks[1].instrs

\* Where the i-th icmp of the function stands.
CompareAt(i) ==
    CHOOSE k \in 1..Len(ChainInstrs) :
       /\ ChainInstrs[k][1] = "icmp"
       /\ Cardinality({j \in 1..k - 1 : ChainInstrs[j][1] = "icmp"}) = i - 1

\* The instructions from lo to hi that evaluate operands.
EvaluatedIn(lo, hi) ==
    Cardinality({k \in lo..hi :
                    ChainInstrs[k][1] \in {"add", "sub", "mul", "sdiv", "load"}})

\* The code of the chain is one block: the evaluation of e0 and e1, the
\* comparison of link 1, then for each further link the evaluation of its
\* right operand and its comparison, whose left value is the right value of
\* the link before; nothing else evaluates an operand.
ChainEvaluatedOnceInOrder ==
    LET n == Len(ChainOps)
    IN  /\ Len(module.functions[1].blocks) = 1
        /\ Cardinality({k \in 1..Len(ChainInstrs) : ChainInstrs[k][1] = "icmp"}) = n
        /\ EvaluatedIn(1, CompareAt(1)) =
              Evaluations(ChainOperands[1]) + Evaluations(ChainOperands[2])
        /\ \A i \in 2..n :
              /\ EvaluatedIn(CompareAt(i - 1), CompareAt(i)) =
                    Evaluations(ChainOperands[i + 1])
              /\ ChainInstrs[CompareAt(i)][4] = ChainInstrs[CompareAt(i - 1)][5]
        /\ EvaluatedIn(CompareAt(n), Len(ChainInstrs)) = 0

\* C23: the code of a comparison chain e0 op1 e1 ... opn en evaluates
\* each of e0 .. en once, from left to right, whatever the links before
\* give: it is straight-line code, after every comparison the run goes on
\* with the next instruction, and a run that ends has executed all of it.
\* Its value is the AND of the n signed comparisons.
C23_ChainEvaluatesEveryLink ==
    /\ [](ChainProgram => ChainEvaluatedOnceInOrder)
    /\ [][ChainProgram /\ Running /\ Instr[1] = "icmp" =>
             /\ pc' = "run" /\ frame'.block = frame.block
             /\ frame'.ip = frame.ip + 1]_vars
    /\ [](ChainProgram /\ pc = "exited" =>
             /\ \A k \in 1..Len(ChainInstrs) :
                   ChainInstrs[k][1] \in {"add", "sub", "mul", "sdiv", "icmp", "and"}
                      => ChainInstrs[k][2] \in 1..Len(frame.regs)
             /\ (\A i \in 1..Len(ChainOperands) : ~DividesByZero(ChainOperands[i]))
                   => output = << <<"Bool(%d)\n",
                                    Bit(\A i \in 1..Len(ChainOps) : LinkHolds(i))>> >>)

\* `$ { print 1==2!=3>4>=5; }` has run: the four links gave 0, 1, 0, 0 and
\* it printed Bool(0).
C23_FourLinksCompared ==
    /\ pc = "exited"
    /\ source = PrintProgram(<<"1", "=", "=", "2", "!", "=", "3", ">", "4", ">", "=", "5">>)
    /\ SubSeq(frame.regs, 1, 4) = <<0, 1, 0, 0>>
    /\ output = << <<"Bool(%d)\n", 0>> >>


(***************************************************************************)
(* The generated program: basic blocks.                                    *)
(***************************************************************************)
Terminators == {"br", "jump", "ret", "unreachable"}

\* The block ends in a terminator, its only one.
WellTerminated(block) ==
    /\ block.instrs # <<>>
    /\ block.instrs[Len(block.instrs)][1] \in Terminators
    /\ \A k \in 1..Len(block.instrs) - 1 : block.instrs[k][1] \notin Terminators

\* The block ends with the call of abort and then unreachable.
EndsInAbort(block) ==
    LET n == Len(block.instrs)
    IN  /\ n >= 2
        /\ block.instrs[n] = <<"unreachable">>
        /\ block.instrs[n - 1][1] = "call" /\ block.instrs[n - 1][3] = "abort"

BlocksNamed(f, name) == {b \in 1..Len(f.blocks) : f.blocks[b].name = name}

\* C24: after compile_top_level_statement every basic block of the
\* function ends in exactly one terminator, a conditional or unconditional
\* branch, a return or unreachable, with no instruction after it, also
\* with `&&` and `||` nested in either operand or in the condition of an
\* assert; every fail block of an assert ends with unreachable directly
\* after the call of abort.
C24_BlocksEndInOneTerminator ==
    pc # "panicked" =>
       \A i \in 1..Len(module.functions) :
          LET f == module.functions[i]
          IN  /\ \A b \in 1..Len(f.blocks) : WellTerminated(f.blocks[b])
              /\ \A b \in BlocksNamed(f, "fail_block") : EndsInAbort(f.blocks[b])

\* A function is compiled whose assert has two `&&`/`||` in its condition,
\* the second one in the right operand of the first.
C24_NestedOperatorsInAssert ==
    /\ Len(module.functions) = 1 /\ ast # <<>>
    /\ \E k \in 1..Len(ast[2][1][2]) :
          /\ ast[2][1][2][k][1] = "Assert"
          /\ ast[2][1][2][k][2][1] = "Prefix"
          /\ ast[2][1][2][k][2][3][1] = "BinaryOp"
          /\ ast[2][1][2][k][2][3][4][1] = "BinaryOp"
    /\ Cardinality(BlocksNamed(module.functions[1], "right_block")) = 2
    /\ Cardinality(BlocksNamed(module.functions[1], "fail_block")) = 1


(***************************************************************************)
(* Locals and slots.                                                       *)
(***************************************************************************)
\* The identifiers an IR expression refers to, each with the type it is
\* used at: the variables it reads and the results of its `&&` and `||`.
RECURSIVE RefsInt(_)
RefsInt(e) ==
    CASE e[1] = "Literal" -> {}
      [] e[1] = "Var" -> {<<e[2], "Int">>}
      [] e[1] = "Negate" -> RefsInt(e[2])
      [] e[1] = "BinaryOperation" -> RefsInt(e[2]) \cup RefsInt(e[4])

RECURSIVE RefsBool(_)
RefsBool(e) ==
    CASE e[1] = "Literal" -> {}
      [] e[1] = "Var" -> {<<e[2], "Boolean">>}
      [] e[1] = "Not" -> RefsBool(e[2])
      [] e[1] = "Operator" ->
            {<<e[2], "Boolean">>} \cup RefsBool(e[3]) \cup RefsBool(e[5])
      [] e[1] = "Comparison" ->
            RefsInt(e[2][2]) \cup UNION {RefsInt(e[2][3][i][2]) : i \in 1..Len(e[2][3])}

RefsTyped(typed) == IF typed[1] = "Int" THEN RefsInt(typed[2]) ELSE RefsBool(typed[2])

\* The references of an IR statement, the target of an assignment included.
RefsStatement(stmt) ==
    CASE stmt[1] = "Print" -> RefsTyped(stmt[2])
      [] stmt[1] = "Assert" -> RefsBool(stmt[2])
      [] stmt[1] = "Assignment" -> {<<stmt[2], stmt[3][1]>>} \cup RefsTyped(stmt[3])

RefsFunction(function) ==
    UNION {RefsStatement(function[3][k]) : k \in 1..Len(function[3])}

\* The slots of a compiled function: the allocas of all its blocks.
Allocas(f) ==
    {<<b, k>> \in UNION {{<<c, i>> : i \in 1..Len(f.blocks[c].instrs)} :
                            c \in 1..Len(f.blocks)} :
        f.blocks[b].instrs[k][1] = "alloca"}

SlotType(type) == IF type = "Int" THEN "int" ELSE "bool"

\* The pointers the loads and stores of a compiled function go through.
Pointers(f) ==
    UNION {{IF f.blocks[b].instrs[k][1] = "load" THEN f.blocks[b].instrs[k][4]
            ELSE f.blocks[b].instrs[k][2] :
               k \in {i \in 1..Len(f.blocks[b].instrs) :
                         f.blocks[b].instrs[i][1] \in {"load", "store"}}} :
           b \in 1..Len(f.blocks)}

\* C25: in every module the resolver accepts, each identifier a function
\* body refers to, read, assigned or the result of an `&&` or `||`, is in
\* the locals of that function, once, with the type it is used at; the
\* code generator gives each entry of the locals one slot, allocated at the
\* start of the entry block and nowhere else, keeps the slots of the
\* function it is compiling only, and every load and store goes through a
\* slot of its own function: no lookup of a slot fails.
C25_EveryReferenceHasItsSlot ==
    /\ pc # "panicked"
    /\ \A i \in 1..Len(ir) :
          /\ RefsFunction(ir[i]) \subseteq {ir[i][4][k] : k \in 1..Len(ir[i][4])}
          /\ \A j, k \in 1..Len(ir[i][4]) : j # k => ir[i][4][j][1] # ir[i][4][k][1]
    /\ \A i \in 1..Len(module.functions) :
          LET f == module.functions[i]
              locals == ir[i][4]
          IN  /\ Allocas(f) = {<<1, k>> : k \in 1..Len(locals)}
              /\ \A k \in 1..Len(locals) :
                    f.blocks[1].instrs[k] = <<"alloca", k, SlotType(locals[k][2])>>
              /\ Pointers(f) \subseteq {<<"reg", k>> : k \in 1..Len(locals)}
    /\ module.functions # <<>> =>
          LET locals == ir[Len(module.functions)][4]
          IN  /\ DOMAIN local_vars = {locals[k][1] : k \in 1..Len(locals)}
              /\ \A k \in 1..Len(locals) : local_vars[locals[k][1]] = <<"reg", k>>

\* Two functions are compiled, the first with the slots of a variable and
\* of its `||`, the second with one slot, the only one the generator holds.
C25_SlotsOfSecondFunction ==
    /\ Len(module.functions) = 2
    /\ ir[1][4] = << <<2, "Boolean">>, <<1, "Boolean">> >>
    /\ ir[2][4] = << <<3, "Int">> >>
    /\ Cardinality(Allocas(module.functions[1])) = 2
    /\ local_vars = [i \in {3} |-> <<"reg", 1>>]


(***************************************************************************)
(* The generated program: termination.                                     *)
(***************************************************************************)
\* The processor executes the next instruction of a running program.
SpecLive == SpecRun /\ WF_vars(Exec)

\* Where the running program is: its block's place in the layout, and the
\* instruction in the block.
Position(fr) ==
    <<LayoutIndex(module.functions[fr.function], fr.block), fr.ip>>

\* C26: every execution of an emitted function terminates.  Every branch
\* of a compiled function goes forward in its layout, so its control-flow
\* graph has no cycle; each instruction executed leaves the program further
\* on in the layout, so statements run in the order they were declared;
\* a program that has ended ended in abort exactly when an assert failed;
\* and every run reaches the final return or the abort of the first
\* failing assert.
C26_EveryRunTerminates ==
    /\ [](ForwardOnly)
    /\ [][pc = "run" /\ pc' = "run" =>
            \/ Position(frame')[1] > Position(frame)[1]
            \/ /\ Position(frame')[1] = Position(frame)[1]
               /\ Position(frame')[2] > Position(frame)[2]]_vars
    /\ [](pc \in {"exited", "aborted"} /\ BooleanProgram =>
            (pc = "aborted") = Expected.aborted)
    /\ [](pc = "exited" => Instr = <<"ret", <<"const", 0>> >>)
    /\ (pc = "run") ~> (pc \in {"exited", "aborted"})


(***************************************************************************)
(* The tokenizer's position.                                               *)
(***************************************************************************)
\* The part of the source the tokenizer has consumed when c is left.
Consumed(c) == SubSeq(source, 1, Len(source) - Len(c))

\* The position after a text: one more than its newlines, and one more
\* than its characters after the last of them.
RECURSIVE PositionAfter(_)
PositionAfter(text) ==
    IF text = <<>> THEN <<1, 1>>
    ELSE LET before == PositionAfter(SubSeq(text, 1, Len(text) - 1))
         IN  IF text[Len(text)] = "\n" THEN <<before[1] + 1, 1>>
             ELSE <<before[1], before[2] + 1>>

\* C27: the tokenizer starts at line 1, column 1, and what is left of the
\* source is always its end, the position being that after the part
\* consumed: one more than the newlines consumed, and one more than the
\* characters consumed since the last newline.  A token is recorded with
\* the position after its last character was consumed, which for every
\* token but Eof is past the position of its first character.
C27_PositionCountsConsumedText ==
    /\ [](/\ Len(code) <= Len(source)
          /\ code = SubSeq(source, Len(source) - Len(code) + 1, Len(source))
          /\ <<line, char>> = PositionAfter(Consumed(code)))
    /\ [](pc = "tokenize" /\ code = source => <<line, char>> = <<1, 1>>)
    /\ [][Len(tokens') > Len(tokens) =>
            LET token == tokens'[Len(tokens')]
            IN  /\ tokens' = Append(tokens, token)
                /\ <<token[2], token[3]>> = PositionAfter(Consumed(code'))
                /\ token[1] # <<"Eof">> =>
                      /\ Len(code') < Len(code)
                      /\ <<token[2], token[3]>> # <<line, char>>]_vars

TwoLines ==
    Cat(<<<<"$", "{">>, W_print, <<" ", "1", ";", "}", "\n", "$", "{">>,
          W_print, <<" ", "2", ";", "}">> >>)

\* The print of the second line, columns 3 to 7, is recorded at column 8
\* of line 2, and Eof past the last character.
C27_PrintOnSecondLine ==
    /\ source = TwoLines
    /\ pc = "parse"
    /\ tokens[9] = << <<"Print">>, 2, 8>>
    /\ tokens[13] = << <<"Eof">>, 2, 12>>

====
